---- MODULE Spec2Model ----
(***************************************************************************)
(* Order execution and fill tracking against the CLOB exchange:            *)
(*   - the trading module (getClobContext, placeLimitOrder,                *)
(*     placeMarketOrder, fetchOrder, fetchOrderFills, cancelOrder,         *)
(*     fetchCollateralBalance, fetchConditionalBalance), and               *)
(*   - the order route (POST of app/api/trade/limit/route.js).             *)
(*                                                                         *)
(* Execution model.  The program runs on a single-threaded event loop.     *)
(* An async function runs without interruption up to its next await; what  *)
(* follows the await is a continuation.  Continuations of a settled        *)
(* promise are queued first-in first-out (variable microtasks) and all run *)
(* before the event loop takes its next event.  Events are: a caller       *)
(* invoking a public operation (a request handler, the load-time warm-up), *)
(* the exchange answering a pending client request, a timer firing, and a  *)
(* configuration change.  Each action below is one such uninterrupted run. *)
(***************************************************************************)
EXTENDS Integers, Sequences, FiniteSets, TLC

VARIABLES
    config,              \* TRADING_CONFIG: [enabled, privateKey, apiOk]
    configChanges,       \* number of configuration changes so far
    clobContextPromise,  \* the memo: 0 is null, a > 0 is the promise of attempt a
    warnedMissingKey,    \* the module flag of the same name
    warnings,            \* number of missing-key warnings logged
    attempts,            \* the initClobContext() invocations so far, in order
    microtasks,          \* FIFO of tasks whose continuation is ready to run
    task                 \* the invocations of public operations

vars == <<config, configChanges, clobContextPromise, warnedMissingKey,
          warnings, attempts, microtasks, task>>

sessionVars == <<clobContextPromise, warnedMissingKey, warnings, attempts>>

(***************************************************************************)
(* Bounds of the model.                                                    *)
(***************************************************************************)
NCallers == 3            \* invocations of public operations in one behaviour
MaxConfigChanges == 2    \* configuration changes in one behaviour

Tasks == 1..NCallers

(***************************************************************************)
(* Configuration.  privateKey is "" (missing), "malformed" (new Wallet     *)
(* throws on it) or "valid".  apiOk tells whether new ClobClient accepts   *)
(* the configured API host.                                                *)
(***************************************************************************)
PrivateKeys == {"", "malformed", "valid"}

Configs == [enabled : BOOLEAN, privateKey : PrivateKeys, apiOk : BOOLEAN]

(***************************************************************************)
(* Values.  Absent stands for undefined and null.                          *)
(***************************************************************************)
Absent == "<absent>"

NoResult == [kind |-> "none"]
NullResult == [kind |-> "null"]
CtxResult(a) == [kind |-> "ctx", att |-> a]
BoolResult(b) == [kind |-> "bool", value |-> b]

NoArgs == [none |-> TRUE]

(***************************************************************************)
(* An invocation of a public operation.  op is the operation the caller    *)
(* invoked and sub the operation now running for it (the order route calls *)
(* other public operations); pc is the await the invocation is suspended   *)
(* at; calls lists the exchange client requests issued on its behalf.      *)
(* att, started and joinedPhase record which attempt its latest            *)
(* getClobContext call awaits, whether that call started the attempt, and  *)
(* the state the attempt was in when the call joined it.                   *)
(***************************************************************************)
IdleTask == [op |-> "none", sub |-> "none", pc |-> "idle", att |-> 0,
             joinedPhase |-> "none", started |-> FALSE, threw |-> FALSE,
             result |-> NoResult, ret |-> NoResult, args |-> NoArgs,
             loc |-> NoArgs, req |-> NoArgs, calls |-> <<>>]

Pending(a) == attempts[a].phase \in {"create", "derive"}

(***************************************************************************)
(* initClobContext, from its call to its first await.  The signer and the  *)
(* seed client are constructed; a throw rejects the promise at once.       *)
(* Otherwise createOrDeriveApiKey(nonce) is issued and awaited.            *)
(***************************************************************************)
InitClobContextStart(t) ==
    IF config.privateKey = ""
    THEN [phase |-> "rejected", failure |-> "missingKey", starter |-> t,
          waiters |-> <<>>, creates |-> 0, derives |-> 0,
          nonce |-> 0, deriveNonce |-> 0, createFailed |-> FALSE]
    ELSE IF config.privateKey = "malformed"
    THEN [phase |-> "rejected", failure |-> "signer", starter |-> t,
          waiters |-> <<>>, creates |-> 0, derives |-> 0,
          nonce |-> 0, deriveNonce |-> 0, createFailed |-> FALSE]
    ELSE IF ~config.apiOk
    THEN [phase |-> "rejected", failure |-> "client", starter |-> t,
          waiters |-> <<>>, creates |-> 0, derives |-> 0,
          nonce |-> 0, deriveNonce |-> 0, createFailed |-> FALSE]
    ELSE [phase |-> "create", failure |-> "none", starter |-> t,
          waiters |-> <<>>, creates |-> 1, derives |-> 0,
          nonce |-> Len(attempts) + 1, deriveNonce |-> 0,
          createFailed |-> FALSE]

(***************************************************************************)
(* initClobContext after the credentials arrived: the authenticated client *)
(* is constructed (a throw rejects) and the context is returned.           *)
(***************************************************************************)
InitClobContextFinish(att) ==
    IF config.apiOk
    THEN [att EXCEPT !.phase = "resolved"]
    ELSE [att EXCEPT !.phase = "rejected", !.failure = "client"]

(***************************************************************************)
(* getClobContext, from its call to its await.                             *)
(***************************************************************************)
ImmediateNull == ~config.enabled \/ config.privateKey = ""

\* A bug that starts an attempt on every call.
AlwaysNewAttempt == TRUE

\* line 96: if (!clobContextPromise)
NeedsNewAttempt == clobContextPromise = 0

\* The attempt the caller awaits.
AwaitedAttempt == IF NeedsNewAttempt THEN Len(attempts) + 1 ELSE clobContextPromise

AttemptsAfterCall(t) ==
    LET base == IF NeedsNewAttempt
                THEN Append(attempts, InitClobContextStart(t))
                ELSE attempts
        a == AwaitedAttempt
    IN  IF base[a].phase \in {"create", "derive"}
        THEN [base EXCEPT ![a].waiters = Append(@, t)]
        ELSE base

\* A bug that logs the warning on every call without a key.
AlwaysWarns == TRUE

\* line 87: if (!warnedMissingKey)
WarnsMissingKey == ~warnedMissingKey

\* A bug that skips the check of the enabled flag.
DisabledIgnored == FALSE

\* line 84: if (!config.enabled) return null
TradingDisabled == ~config.enabled

GetClobContextCall(t) ==
    IF TradingDisabled
    THEN UNCHANGED sessionVars
    ELSE IF config.privateKey = ""
    THEN /\ warnedMissingKey' = TRUE
         /\ warnings' = IF WarnsMissingKey THEN warnings + 1 ELSE warnings
         /\ UNCHANGED <<clobContextPromise, attempts>>
    ELSE /\ warnedMissingKey' = FALSE
         /\ warnings' = warnings
         /\ clobContextPromise' = AwaitedAttempt
         /\ attempts' = AttemptsAfterCall(t)

(***************************************************************************)
(* getClobContext, after the await (lines 100-106).                        *)
(***************************************************************************)
\* A bug that leaves the rejected promise in the memo.
KeepMemo == clobContextPromise

\* line 104: clobContextPromise = null
MemoAfterFailure == 0

\* A bug that lets the rejection escape.
Rethrows(a) == attempts[a].phase = "rejected"

\* lines 100-106: the catch swallows every rejection.
GetClobContextThrows(a) == FALSE

GetClobContextValue(a) ==
    IF attempts[a].phase = "resolved" THEN CtxResult(a) ELSE NullResult

\* A bug that clears the memo after every await.
AlwaysForgets(a) == 0

\* lines 100-106: the memo stays when the awaited promise resolved.
MemoAfterAwait(a) ==
    IF attempts[a].phase = "resolved"
    THEN clobContextPromise
    ELSE MemoAfterFailure

GetClobContextResume(t) ==
    LET a == task[t].att
    IN  /\ clobContextPromise' = MemoAfterAwait(a)
        /\ UNCHANGED <<warnedMissingKey, warnings, attempts>>

(***************************************************************************)
(* Calls and returns of the public operations.  Every public operation     *)
(* begins with `await getClobContext()`.                                   *)
(***************************************************************************)
PlaceOps == {"placeLimitOrder", "placeMarketOrder"}

\* A bug that ignores the structured-error flag.
AlwaysNullResult(args, status, error) == NullResult

\* lines 112-113 and 201-202, 164-165 and 250-251, 178-182 and 264-268.
PlaceFailure(args, status, error) ==
    IF args.returnError
    THEN [kind |-> "error", orderId |-> "", status |-> status, error |-> error]
    ELSE NullResult

\* What each operation returns when getClobContext gave null.
NoContextResult(sub, args) ==
    IF sub \in PlaceOps THEN PlaceFailure(args, "", "missing clob context")
    ELSE IF sub = "cancelOrder" THEN BoolResult(FALSE)
    ELSE NullResult

\* The operation tk.sub returns res: to the caller, or to the order route
\* that called it, whose continuation is then queued.
Finish(tk, res) ==
    IF tk.op = tk.sub
    THEN [tk EXCEPT !.pc = "done", !.result = res]
    ELSE [tk EXCEPT !.pc = "returned", !.ret = res]

FinishQueue(q, t, tk) == IF tk.op = tk.sub THEN q ELSE Append(q, t)

\* An exception leaves the operation; the order route does not catch it.
Raise(tk) == [tk EXCEPT !.pc = "done", !.threw = TRUE]

\* The invocation tk enters operation sub with args, up to the await of
\* getClobContext.
Enter(t, tk, sub, args) ==
    LET tk1 == [tk EXCEPT !.sub = sub, !.args = args, !.loc = NoArgs]
    IN  IF ImmediateNull
        THEN Finish([tk1 EXCEPT !.att = 0, !.started = FALSE,
                                !.joinedPhase = IF ~config.enabled THEN "disabled"
                                                ELSE "missingKey"],
                    NoContextResult(sub, args))
        ELSE [tk1 EXCEPT
                !.pc = "awaitCtx",
                !.att = AwaitedAttempt,
                !.started = NeedsNewAttempt,
                !.joinedPhase = IF NeedsNewAttempt THEN "new"
                                ELSE attempts[clobContextPromise].phase,
                !.calls = IF NeedsNewAttempt /\ InitClobContextStart(t).creates = 1
                          THEN Append(@, "createOrDeriveApiKey")
                          ELSE @]

\* The microtask queue after Enter: awaiting a settled promise queues the
\* continuation at once.
EnterQueue(q, t, tk, sub) ==
    IF ImmediateNull
    THEN FinishQueue(q, t, [tk EXCEPT !.sub = sub])
    ELSE IF AttemptsAfterCall(t)[AwaitedAttempt].phase \in {"create", "derive"}
    THEN q
    ELSE Append(q, t)

(***************************************************************************)
(* Events.                                                                 *)
(***************************************************************************)
\* A scheduler that lets calls and answers in between queued continuations.
AnyTime == TRUE

Quiet == microtasks = <<>>

Runs(t, sub, pc) ==
    /\ microtasks # <<>>
    /\ Head(microtasks) = t
    /\ task[t].sub = sub
    /\ task[t].pc = pc

Waits(t, sub, pc) ==
    /\ Quiet
    /\ task[t].sub = sub
    /\ task[t].pc = pc

\* A configuration change.
SetConfig(c) ==
    /\ Quiet
    /\ configChanges < MaxConfigChanges
    /\ c # config
    /\ config' = c
    /\ configChanges' = configChanges + 1
    /\ UNCHANGED <<sessionVars, microtasks, task>>

\* A caller invokes the public operation op.
Call(t, op, args) ==
    /\ Quiet
    /\ task[t].pc = "idle"
    /\ GetClobContextCall(t)
    /\ task' = [task EXCEPT ![t] = Enter(t, [IdleTask EXCEPT !.op = op], op, args)]
    /\ microtasks' = EnterQueue(microtasks, t, [IdleTask EXCEPT !.op = op], op)
    /\ UNCHANGED <<config, configChanges>>

\* A caller invokes getClobContext.
CallGetSession(t) == Call(t, "getSession", NoArgs)

\* The continuation of a caller of getClobContext runs.
ResumeGetSession(t) ==
    /\ Runs(t, "getSession", "awaitCtx")
    /\ GetClobContextResume(t)
    /\ microtasks' = Tail(microtasks)
    /\ task' = [task EXCEPT ![t].pc = "done",
                            ![t].threw = GetClobContextThrows(task[t].att),
                            ![t].result = GetClobContextValue(task[t].att)]
    /\ UNCHANGED <<config, configChanges>>

\* A bug that computes the nonce again for the fallback.
FreshNonce(att) == att.nonce + 1

\* line 65: deriveApiKey(nonce), the nonce of line 59
DeriveNonce(att) == att.nonce

\* The exchange answers createOrDeriveApiKey (lines 61-66): with the
\* credentials, or with an error, and then deriveApiKey is issued.
CreateResponse(a, ok) ==
    /\ Quiet
    /\ a \in 1..Len(attempts)
    /\ attempts[a].phase = "create"
    /\ IF ok
       THEN /\ attempts' = [attempts EXCEPT ![a] = InitClobContextFinish(@)]
            /\ microtasks' = attempts[a].waiters
            /\ task' = task
       ELSE /\ attempts' = [attempts EXCEPT ![a].phase = "derive",
                                            ![a].derives = @ + 1,
                                            ![a].createFailed = TRUE,
                                            ![a].deriveNonce =
                                                DeriveNonce(attempts[a])]
            /\ microtasks' = microtasks
            /\ task' = [task EXCEPT ![attempts[a].starter].calls =
                                        Append(@, "deriveApiKey")]
    /\ UNCHANGED <<config, configChanges, clobContextPromise,
                   warnedMissingKey, warnings>>

\* The exchange answers deriveApiKey (line 65).
DeriveResponse(a, ok) ==
    /\ Quiet
    /\ a \in 1..Len(attempts)
    /\ attempts[a].phase = "derive"
    /\ attempts' = [attempts EXCEPT ![a] =
                      IF ok THEN InitClobContextFinish(@)
                      ELSE [@ EXCEPT !.phase = "rejected",
                                     !.failure = "credentials"]]
    /\ microtasks' = attempts[a].waiters
    /\ UNCHANGED <<config, configChanges, clobContextPromise,
                   warnedMissingKey, warnings, task>>

InitModule ==
    /\ config \in Configs
    /\ configChanges = 0
    /\ clobContextPromise = 0
    /\ warnedMissingKey = FALSE
    /\ warnings = 0
    /\ attempts = <<>>
    /\ microtasks = <<>>

(***************************************************************************)
(* The session manager on its own: callers of getClobContext.              *)
(***************************************************************************)
Init ==
    /\ InitModule
    /\ task = [t \in Tasks |-> IdleTask]

Next ==
    \/ \E c \in Configs : SetConfig(c)
    \/ \E t \in Tasks : CallGetSession(t)
    \/ \E t \in Tasks : ResumeGetSession(t)
    \/ \E a \in 1..NCallers, ok \in BOOLEAN : CreateResponse(a, ok)
    \/ \E a \in 1..NCallers, ok \in BOOLEAN : DeriveResponse(a, ok)

Spec == Init /\ [][Next]_vars

(***************************************************************************)
(* placeLimitOrder and placeMarketOrder.  The two functions differ in the  *)
(* client call that submits the order.                                     *)
(***************************************************************************)
NOrderCallers == 1

OrderTasks == 1..NOrderCallers

\* opts: the structured-error flag and the metadata overrides, each either
\* Absent or the caller's value.
PlaceOpts ==
    [returnError : BOOLEAN,
     tickSize : {Absent, "caller"},
     negRisk : {Absent, "caller"},
     amount : {0},
     price : {0}]

\* What createAndPostOrder and createAndPostMarketOrder may do: raise,
\* return nothing, or return an object with any of orderID, orderId, status.
PostOutcomes ==
    {[kind |-> "raise"], [kind |-> "absent"]}
    \cup [kind : {"object"},
          orderID : {Absent, "", "A"},
          orderId : {Absent, "", "B"},
          status : {Absent, "live"}]

\* a ?? b
Coalesce(a, b) == IF a = Absent THEN b ELSE a

\* response?.field
Field(r, f) == IF r.kind = "object" THEN r[f] ELSE Absent

\* A bug that takes any response for a success.
OrderIdOrPlaceholder(r) ==
    LET id == Coalesce(Field(r, "orderID"), Coalesce(Field(r, "orderId"), ""))
    IN  IF id = "" THEN "unknown" ELSE id

\* lines 168 and 254: response?.orderID ?? response?.orderId ?? ""
NormalizedOrderId(r) ==
    Coalesce(Coalesce(Field(r, "orderID"), Field(r, "orderId")), "")

\* lines 169 and 255: response?.status ?? ""
NormalizedStatus(r) == Coalesce(Field(r, "status"), "")

\* A bug that queries the metadata only when both overrides are missing.
BothMissing(args) == args.tickSize = Absent /\ args.negRisk = Absent

\* lines 122 and 212
MetadataNeeded(args) == args.tickSize = Absent \/ args.negRisk = Absent

SubmitCall(sub) ==
    IF sub = "placeLimitOrder" THEN "createAndPostOrder"
    ELSE "createAndPostMarketOrder"

\* lines 168-195 and 254-272
PlaceResult(args, r) ==
    IF r.kind = "raise"
    THEN PlaceFailure(args, "", "submit failed")
    ELSE IF NormalizedOrderId(r) = ""
    THEN PlaceFailure(args, NormalizedStatus(r), "missing orderId in response")
    ELSE [kind |-> "order", orderId |-> NormalizedOrderId(r),
          status |-> NormalizedStatus(r)]

\* A caller invokes placeLimitOrder or placeMarketOrder.
CallPlaceOrder(t, op, opts) == Call(t, op, opts)

\* lines 110-152 and 199-239: after the context arrived.
ResumePlaceOrder(t) ==
    /\ \E op \in PlaceOps : Runs(t, op, "awaitCtx")
    /\ GetClobContextResume(t)
    /\ LET tk == task[t]
           meta == [tickSize |-> tk.args.tickSize, negRisk |-> tk.args.negRisk,
                    response |-> [kind |-> "none"], metadataError |-> FALSE]
       IN  IF GetClobContextValue(tk.att) = NullResult
           THEN /\ task' = [task EXCEPT ![t] =
                              Finish(tk, NoContextResult(tk.sub, tk.args))]
                /\ microtasks' = FinishQueue(Tail(microtasks), t, tk)
           ELSE /\ task' = [task EXCEPT ![t] =
                              IF MetadataNeeded(tk.args)
                              THEN [tk EXCEPT !.pc = "awaitTickSize",
                                              !.loc = meta,
                                              !.calls = Append(@, "getTickSize")]
                              ELSE [tk EXCEPT !.pc = "awaitPost",
                                              !.loc = meta,
                                              !.calls = Append(@, SubmitCall(tk.sub))]]
                /\ microtasks' = Tail(microtasks)
    /\ UNCHANGED <<config, configChanges>>

\* A bug that submits the order although the metadata query raised.
SubmitDespiteFailure(tk) ==
    [tk EXCEPT !.pc = "awaitPost", !.loc.metadataError = TRUE,
               !.calls = Append(@, SubmitCall(tk.sub))]

\* lines 126-131 and 216-221: the catch of the metadata queries.
MetadataFailure(tk) ==
    Finish([tk EXCEPT !.loc.metadataError = TRUE],
           PlaceFailure(tk.args, "", "metadata fetch failed"))

\* lines 124 and 214: getTickSize returns or raises.
TickSizeResponse(t, ok) ==
    /\ \E op \in PlaceOps : Waits(t, op, "awaitTickSize")
    /\ LET tk == task[t]
       IN  IF ok
           THEN /\ task' = [task EXCEPT ![t] =
                              [tk EXCEPT !.pc = "awaitNegRisk",
                                         !.loc.tickSize = "exchange",
                                         !.calls = Append(@, "getNegRisk")]]
                /\ microtasks' = microtasks
           ELSE /\ task' = [task EXCEPT ![t] = MetadataFailure(tk)]
                /\ microtasks' = FinishQueue(microtasks, t, tk)
    /\ UNCHANGED <<config, configChanges, sessionVars>>

\* lines 125 and 215: getNegRisk returns or raises.
NegRiskResponse(t, ok) ==
    /\ \E op \in PlaceOps : Waits(t, op, "awaitNegRisk")
    /\ LET tk == task[t]
       IN  IF ok
           THEN /\ task' = [task EXCEPT ![t] =
                              [tk EXCEPT !.pc = "awaitPost",
                                         !.loc.negRisk = "exchange",
                                         !.calls = Append(@, SubmitCall(tk.sub))]]
                /\ microtasks' = microtasks
           ELSE /\ task' = [task EXCEPT ![t] = MetadataFailure(tk)]
                /\ microtasks' = FinishQueue(microtasks, t, tk)
    /\ UNCHANGED <<config, configChanges, sessionVars>>

\* A bug that submits once more after a submission that gave no order.
RetriesSubmission(tk, r) ==
    IF PlaceResult(tk.args, r).kind # "order" /\ Len(tk.calls) < 6
    THEN [tk EXCEPT !.calls = Append(@, SubmitCall(tk.sub))]
    ELSE Finish(tk, PlaceResult(tk.args, r))

\* lines 153-195 and 240-272: every path after the submission returns.
AfterSubmission(tk, r) == Finish(tk, PlaceResult(tk.args, r))

\* lines 144-195 and 233-272: the submission call returns or raises.
PostResponse(t, r) ==
    /\ \E op \in PlaceOps : Waits(t, op, "awaitPost")
    /\ LET tk == [task[t] EXCEPT !.loc.response = r]
       IN  /\ task' = [task EXCEPT ![t] = AfterSubmission(tk, r)]
           /\ microtasks' = FinishQueue(microtasks, t, tk)
    /\ UNCHANGED <<config, configChanges, sessionVars>>

InitOrders ==
    /\ InitModule
    /\ task = [t \in OrderTasks |-> IdleTask]

NextOrders ==
    \/ \E t \in OrderTasks, op \in PlaceOps, opts \in PlaceOpts :
          CallPlaceOrder(t, op, opts)
    \/ \E t \in OrderTasks : ResumePlaceOrder(t)
    \/ \E t \in OrderTasks, ok \in BOOLEAN : TickSizeResponse(t, ok)
    \/ \E t \in OrderTasks, ok \in BOOLEAN : NegRiskResponse(t, ok)
    \/ \E t \in OrderTasks, r \in PostOutcomes : PostResponse(t, r)
    \/ \E a \in OrderTasks, ok \in BOOLEAN : CreateResponse(a, ok)
    \/ \E a \in OrderTasks, ok \in BOOLEAN : DeriveResponse(a, ok)

SpecOrders == InitOrders /\ [][NextOrders]_vars

(***************************************************************************)
(* Numbers.  Amounts, sizes, prices and balances are fixed-point integers: *)
(* ONE units make 1.0.  One unit, the smallest difference the model can    *)
(* express, stands for the tolerance NUMERIC_EPSILON that the code adds    *)
(* before it compares or floors.  The inputs below are multiples of ten    *)
(* units, so that the tolerance never decides a comparison between them.   *)
(* A JavaScript number is [fin, v]: finite with value v, or not finite.    *)
(***************************************************************************)
ONE == 10000

NUMERIC_EPSILON == 1

Num(v) == [fin |-> TRUE, v |-> v]
NaN == [fin |-> FALSE, v |-> 0]

\* A field of a response before Number() is applied: absent, a text that
\* is no finite number, or a number.
RawNumbers(values) ==
    {[kind |-> "absent"], [kind |-> "nan"]} \cup [kind : {"num"}, v : values]

\* Number(raw ?? 0)
NumberOrZero(raw) ==
    IF raw.kind = "absent" THEN Num(0)
    ELSE IF raw.kind = "nan" THEN NaN
    ELSE Num(raw.v)

\* Number(raw)
ToNumber(raw) == IF raw.kind = "num" THEN Num(raw.v) ELSE NaN

(***************************************************************************)
(* fetchOrder, cancelOrder, fetchCollateralBalance and                     *)
(* fetchConditionalBalance, called without a context argument.             *)
(***************************************************************************)
NReadCallers == 2

ReadTasks == 1..NReadCallers

ReadOps == {"fetchOrder", "cancelOrder", "fetchCollateralBalance",
            "fetchConditionalBalance"}

BalanceOps == {"fetchCollateralBalance", "fetchConditionalBalance"}

BalanceValues == {0, 3 * ONE, 10 * ONE, 10 * ONE + ONE \div 200}

\* What getBalanceAllowance may do: raise, return nothing, or return an
\* object whose balance field is absent, not a finite number, or a number.
BalanceOutcomes ==
    {[kind |-> "raise"], [kind |-> "absent"]}
    \cup [kind : {"object"}, balance : RawNumbers(BalanceValues)]

\* What getOrder may do for fetchOrder, and cancelOrder for cancelOrder.
PassThroughOutcomes ==
    {[kind |-> "raise"], [kind |-> "absent"]}
    \cup [kind : {"object"}, status : {"live", "matched"}]

ReadArgs(op) ==
    IF op = "fetchConditionalBalance" THEN [tokenId : {"", "token"}]
    ELSE {NoArgs}

\* lines 401-404 and 423-426
BalanceResult(r) ==
    LET balance == NumberOrZero(r.balance)
    IN  [kind |-> "balance", balance |-> balance,
         available |-> IF balance.fin THEN balance.v ELSE 0]

\* lines 401 and 423: res.balance is read outside the try block; it throws
\* a TypeError when the client returned undefined or null.
BalanceReadThrows(r) == r.kind = "absent"

ReadCallName(sub) ==
    IF sub = "fetchOrder" THEN "getOrder"
    ELSE IF sub = "cancelOrder" THEN "cancelOrder"
    ELSE "getBalanceAllowance"

\* A caller invokes one of the four operations.
CallRead(t, op, args) == Call(t, op, args)

\* lines 276-279, 377-380, 390-395, 408-417: after the context arrived.
ResumeRead(t) ==
    /\ \E op \in ReadOps : Runs(t, op, "awaitCtx")
    /\ GetClobContextResume(t)
    /\ LET tk == task[t]
       IN  IF GetClobContextValue(tk.att) = NullResult
           THEN /\ task' = [task EXCEPT ![t] =
                              Finish(tk, NoContextResult(tk.sub, tk.args))]
                /\ microtasks' = FinishQueue(Tail(microtasks), t, tk)
           ELSE IF tk.sub = "fetchConditionalBalance" /\ tk.args.tokenId = ""
           THEN /\ task' = [task EXCEPT ![t] = Finish(tk, NullResult)]
                /\ microtasks' = FinishQueue(Tail(microtasks), t, tk)
           ELSE /\ task' = [task EXCEPT ![t] =
                              [tk EXCEPT !.pc = "awaitRead",
                                         !.calls = Append(@, ReadCallName(tk.sub))]]
                /\ microtasks' = Tail(microtasks)
    /\ UNCHANGED <<config, configChanges>>

\* A bug that takes a cancel call that returned nothing for a failure.
CancelNeedsResponse(sub, r) ==
    IF sub = "cancelOrder" THEN BoolResult(r.kind = "object")
    ELSE IF r.kind = "object" THEN r
    ELSE NullResult

\* lines 279-283: what getOrder returned, null after a raise; lines
\* 380-386: true after cancelOrder returned, false after a raise.
PassThroughResult(sub, r) ==
    IF sub = "cancelOrder" THEN BoolResult(r.kind # "raise")
    ELSE IF r.kind = "object" THEN r
    ELSE NullResult

\* lines 279-283 and 380-386: getOrder or cancelOrder returns or raises.
PassThroughResponse(t, r) ==
    /\ \E op \in ReadOps \ BalanceOps : Waits(t, op, "awaitRead")
    /\ LET tk == [task[t] EXCEPT !.loc = [response |-> r]]
       IN  /\ task' = [task EXCEPT ![t] = Finish(tk, PassThroughResult(tk.sub, r))]
           /\ microtasks' = FinishQueue(microtasks, t, tk)
    /\ UNCHANGED <<config, configChanges, sessionVars>>

\* lines 393-404 and 412-426: getBalanceAllowance returns or raises.
BalanceResponse(t, r) ==
    /\ \E op \in BalanceOps : Waits(t, op, "awaitRead")
    /\ LET tk == [task[t] EXCEPT !.loc = [response |-> r]]
       IN  IF r.kind = "raise"
           THEN /\ task' = [task EXCEPT ![t] = Finish(tk, NullResult)]
                /\ microtasks' = FinishQueue(microtasks, t, tk)
           ELSE IF BalanceReadThrows(r)
           THEN /\ task' = [task EXCEPT ![t] = Raise(tk)]
                /\ microtasks' = microtasks
           ELSE /\ task' = [task EXCEPT ![t] = Finish(tk, BalanceResult(r))]
                /\ microtasks' = FinishQueue(microtasks, t, tk)
    /\ UNCHANGED <<config, configChanges, sessionVars>>

InitReads ==
    /\ InitModule
    /\ task = [t \in ReadTasks |-> IdleTask]

NextReads ==
    \/ \E t \in ReadTasks, op \in ReadOps : \E args \in ReadArgs(op) :
          CallRead(t, op, args)
    \/ \E t \in ReadTasks : ResumeRead(t)
    \/ \E t \in ReadTasks, r \in PassThroughOutcomes : PassThroughResponse(t, r)
    \/ \E t \in ReadTasks, r \in BalanceOutcomes : BalanceResponse(t, r)
    \/ \E a \in ReadTasks, ok \in BOOLEAN : CreateResponse(a, ok)
    \/ \E a \in ReadTasks, ok \in BOOLEAN : DeriveResponse(a, ok)

SpecReads == InitReads /\ [][NextReads]_vars

(***************************************************************************)
(* fetchOrderFills, with fetchTradesForOrder and computeFillFromTrades.    *)
(* Time is counted in polling units: elapsed is Date.now() - started.      *)
(***************************************************************************)
NFillCallers == 1

MaxWaitMs == 1

MaxPollIntervalMs == 2

MaxLatency == 1

MaxTradeIds == 2

FillTasks == 1..NFillCallers

FillOpts == [maxWaitMs : 0..MaxWaitMs, pollIntervalMs : 1..MaxPollIntervalMs,
             preferTrades : BOOLEAN]

OrderStatuses == {Absent, "", "live", "matched"}

MatchedSizes == {0 - 2 * ONE, 0, 2 * ONE}

OrderPrices == {ONE \div 2}

\* What getOrder may do: raise, return nothing, or return an order with a
\* status, a number of associated trade identifiers, a matched size and a
\* price.
OrderOutcomes ==
    {[kind |-> "raise"], [kind |-> "absent"]}
    \cup [kind : {"object"}, status : OrderStatuses,
          associate_trades : 0..MaxTradeIds,
          size_matched : RawNumbers(MatchedSizes),
          price : RawNumbers(OrderPrices)]

Trades == [size : {NaN, Num(0 - 2 * ONE), Num(0), Num(2 * ONE)},
           price : {NaN, Num(ONE \div 2)}]

\* What getTrades may do for one identifier: raise, return something that
\* is not a non-empty array, or return an array, here of one trade.
TradeOutcomes ==
    {[kind |-> "raise"], [kind |-> "empty"]}
    \cup [kind : {"array"}, trade : Trades]

NoOrder == [kind |-> "absent"]

\* line 333: lastOrder?.associate_trades?.length
TradeIdCount(order) ==
    IF order.kind = "object" THEN order.associate_trades ELSE 0

\* lines 307-313
RECURSIVE SumSizes(_)
SumSizes(trades) ==
    IF trades = <<>> THEN 0
    ELSE LET trade == Head(trades)
         IN  (IF trade.size.fin /\ trade.price.fin THEN trade.size.v ELSE 0)
             + SumSizes(Tail(trades))

RECURSIVE SumNotional(_)
SumNotional(trades) ==
    IF trades = <<>> THEN 0
    ELSE LET trade == Head(trades)
         IN  (IF trade.size.fin /\ trade.price.fin
              THEN trade.size.v * trade.price.v ELSE 0)
             + SumNotional(Tail(trades))

\* A bug that divides also when nothing was filled.
FillWithoutNull(trades) ==
    LET filledSize == SumSizes(trades)
    IN  [filledSize |-> filledSize,
         avgPrice |-> Num(SumNotional(trades)
                             \div (IF filledSize > 0 THEN filledSize ELSE 1))]

\* lines 304-316
computeFillFromTrades(trades) ==
    LET filledSize == SumSizes(trades)
    IN  [filledSize |-> filledSize,
         avgPrice |-> IF filledSize > 0
                      THEN Num(SumNotional(trades) \div filledSize)
                      ELSE NullResult]

FillSnapshot(status, filledSize, avgPrice, trades, order) ==
    [kind |-> "fills", status |-> status, filledSize |-> filledSize,
     avgPrice |-> avgPrice, trades |-> trades, order |-> order]

\* A bug that returns early on a fill only, whatever the status.
ReturnsOnFillOnly(order, fills) == fills.filledSize > 0

\* line 336
ReturnsEarly(order, fills) ==
    fills.filledSize > 0 \/ Field(order, "status") # "live"

\* line 347
BreaksLoop(order, preferTrades) ==
    /\ order.kind = "object"
    /\ Field(order, "status") \notin {Absent, ""}
    /\ Field(order, "status") # "live"
    /\ ~preferTrades

\* lines 337-343
EarlyResult(loc) ==
    LET fills == computeFillFromTrades(loc.trades)
    IN  FillSnapshot(Field(loc.lastOrder, "status"), fills.filledSize,
                     fills.avgPrice, loc.trades, loc.lastOrder)

\* lines 353-373
AfterLoopResult(args, loc) ==
    IF loc.lastOrder.kind # "object"
    THEN FillSnapshot("unknown", 0, NullResult, <<>>, NoOrder)
    ELSE IF args.preferTrades
    THEN LET fills == computeFillFromTrades(loc.trades)
         IN  FillSnapshot(Coalesce(loc.lastOrder.status, "unknown"),
                          fills.filledSize, fills.avgPrice, loc.trades,
                          loc.lastOrder)
    ELSE LET sizeMatched == NumberOrZero(loc.lastOrder.size_matched)
             avgFallback == NumberOrZero(loc.lastOrder.price)
         IN  FillSnapshot(Coalesce(loc.lastOrder.status, "unknown"),
                          IF sizeMatched.fin THEN sizeMatched.v ELSE 0,
                          IF avgFallback.fin /\ avgFallback.v > 0
                          THEN avgFallback ELSE NullResult,
                          loc.trades, loc.lastOrder)

\* A bug that polls once more after the wait is over.
WaitsOneMore(tk) == tk.loc.elapsed <= tk.args.maxWaitMs + 1

\* line 325: Date.now() - started <= maxWaitMs
WithinWait(tk) == tk.loc.elapsed <= tk.args.maxWaitMs

\* line 325: the loop test, and what follows it on either outcome.
LoopTop(tk) ==
    IF WithinWait(tk)
    THEN [tk EXCEPT !.pc = "awaitOrder", !.calls = Append(@, "getOrder")]
    ELSE Finish([tk EXCEPT !.loc.exit = "timeout"],
                AfterLoopResult(tk.args, tk.loc))

\* lines 347-350, after the trades of the iteration, if any, were handled.
EndOfIteration(tk) ==
    IF BreaksLoop(tk.loc.lastOrder, tk.args.preferTrades)
    THEN Finish([tk EXCEPT !.loc.exit = "break"],
                AfterLoopResult(tk.args, tk.loc))
    ELSE [tk EXCEPT !.pc = "sleep"]

\* The microtask queue after a step that took tk to tk2.
QueueAfter(q, t, tk2) == IF tk2.pc = "returned" THEN Append(q, t) ELSE q

\* A caller invokes fetchOrderFills.
CallFetchOrderFills(t, opts) == Call(t, "fetchOrderFills", opts)

\* lines 319-325
ResumeFetchOrderFills(t) ==
    /\ Runs(t, "fetchOrderFills", "awaitCtx")
    /\ GetClobContextResume(t)
    /\ LET tk == task[t]
           tk2 == IF GetClobContextValue(tk.att) = NullResult
                  THEN Finish(tk, NullResult)
                  ELSE LoopTop([tk EXCEPT !.loc =
                                  [elapsed |-> 0, lastOrder |-> NoOrder,
                                   trades |-> <<>>, pending |-> 0,
                                   everSnapshot |-> FALSE,
                                   answers |-> <<>>, exit |-> "none"]])
       IN  /\ task' = [task EXCEPT ![t] = tk2]
           /\ microtasks' = QueueAfter(Tail(microtasks), t, tk2)
    /\ UNCHANGED <<config, configChanges>>

\* lines 326-334: getOrder returns or raises after d units of time.
OrderResponse(t, r, d) ==
    /\ Waits(t, "fetchOrderFills", "awaitOrder")
    /\ LET lastOrder == IF r.kind = "raise" THEN NoOrder ELSE r
           tk == [task[t] EXCEPT
                    !.loc.lastOrder = lastOrder,
                    !.loc.elapsed = @ + d,
                    !.loc.everSnapshot = @ \/ lastOrder.kind = "object"]
           tk2 == IF TradeIdCount(lastOrder) > 0
                  THEN [tk EXCEPT !.pc = "awaitTrade",
                                  !.loc.trades = <<>>,
                                  !.loc.answers = <<>>,
                                  !.loc.pending = TradeIdCount(lastOrder),
                                  !.calls = Append(@, "getTrades")]
                  ELSE EndOfIteration(tk)
       IN  /\ task' = [task EXCEPT ![t] = tk2]
           /\ microtasks' = QueueAfter(microtasks, t, tk2)
    /\ UNCHANGED <<config, configChanges, sessionVars>>

\* A bug that gives up the batch when one trade query raises.
StopsOnFailure(pending, r) == IF r.kind = "raise" THEN 0 ELSE pending - 1

\* lines 291-300: the loop goes on to the next identifier after a return
\* and after the catch.
PendingAfter(pending, r) == pending - 1

\* lines 291-300 and 334-345: getTrades returns or raises for one
\* identifier; after the last one the fills are computed.
TradeResponse(t, r) ==
    /\ Waits(t, "fetchOrderFills", "awaitTrade")
    /\ LET tk == [task[t] EXCEPT
                    !.loc.trades = IF r.kind = "array" THEN Append(@, r.trade)
                                   ELSE @,
                    !.loc.answers = Append(@, r),
                    !.loc.pending = PendingAfter(@, r)]
           tk2 == IF tk.loc.pending > 0
                  THEN [tk EXCEPT !.calls = Append(@, "getTrades")]
                  ELSE IF ReturnsEarly(tk.loc.lastOrder,
                                       computeFillFromTrades(tk.loc.trades))
                  THEN Finish([tk EXCEPT !.loc.exit = "fill"],
                              EarlyResult(tk.loc))
                  ELSE EndOfIteration(tk)
       IN  /\ task' = [task EXCEPT ![t] = tk2]
           /\ microtasks' = QueueAfter(microtasks, t, tk2)
    /\ UNCHANGED <<config, configChanges, sessionVars>>

\* A bug that sleeps without the clock moving on.
ClockStandsStill(tk) == tk.loc.elapsed

\* line 350: sleep(pollIntervalMs) takes pollIntervalMs of the clock.
ElapsedAfterSleep(tk) == tk.loc.elapsed + tk.args.pollIntervalMs

\* lines 350 and 325: the sleep ends and the loop test runs again.
SleepDone(t) ==
    /\ Waits(t, "fetchOrderFills", "sleep")
    /\ LET tk == [task[t] EXCEPT !.loc.elapsed = ElapsedAfterSleep(task[t])]
           tk2 == LoopTop(tk)
       IN  /\ task' = [task EXCEPT ![t] = tk2]
           /\ microtasks' = QueueAfter(microtasks, t, tk2)
    /\ UNCHANGED <<config, configChanges, sessionVars>>

InitFills ==
    /\ InitModule
    /\ task = [t \in FillTasks |-> IdleTask]

NextFills ==
    \/ \E t \in FillTasks, opts \in FillOpts : CallFetchOrderFills(t, opts)
    \/ \E t \in FillTasks : ResumeFetchOrderFills(t)
    \/ \E t \in FillTasks, r \in OrderOutcomes, d \in 0..MaxLatency :
          OrderResponse(t, r, d)
    \/ \E t \in FillTasks, r \in TradeOutcomes : TradeResponse(t, r)
    \/ \E t \in FillTasks : SleepDone(t)
    \/ \E a \in FillTasks, ok \in BOOLEAN : CreateResponse(a, ok)
    \/ \E a \in FillTasks, ok \in BOOLEAN : DeriveResponse(a, ok)

SpecFills == InitFills /\ [][NextFills]_vars

\* The answers of the exchange that differ in what the polling loop does
\* with them: orders without matched size and price, trades with a price.
LiveOrderOutcomes ==
    {r \in OrderOutcomes :
        r.kind = "object" =>
            r.size_matched.kind = "absent" /\ r.price.kind = "absent"}

LiveTradeOutcomes ==
    {r \in TradeOutcomes : r.kind = "array" => r.trade.price.fin}

NextFillsLive ==
    \/ \E t \in FillTasks, opts \in FillOpts : CallFetchOrderFills(t, opts)
    \/ \E t \in FillTasks : ResumeFetchOrderFills(t)
    \/ \E t \in FillTasks, r \in LiveOrderOutcomes, d \in 0..MaxLatency :
          OrderResponse(t, r, d)
    \/ \E t \in FillTasks, r \in LiveTradeOutcomes : TradeResponse(t, r)
    \/ \E t \in FillTasks : SleepDone(t)
    \/ \E a \in FillTasks, ok \in BOOLEAN : CreateResponse(a, ok)
    \/ \E a \in FillTasks, ok \in BOOLEAN : DeriveResponse(a, ok)

\* Every client call returns or raises, every timer fires and every queued
\* continuation runs.
SpecFillsLive == InitFills /\ [][NextFillsLive]_vars /\ WF_vars(NextFillsLive)

(***************************************************************************)
(* The order route, POST of app/api/trade/limit/route.js.  The invocation  *)
(* keeps the route's own variables in req while the operation it called    *)
(* runs in sub, args and loc.                                              *)
(***************************************************************************)
NRouteCallers == 1

RouteTasks == 1..NRouteCallers

MIN_ORDER_NOTIONAL_USD == 1

MIN_ORDER_SHARES == 5

MIN_TRADABLE_PRICE == ONE \div 100

MAX_TRADABLE_PRICE == (99 * ONE) \div 100

RoutePrices == {NaN, Num(ONE \div 200), Num(ONE \div 100), Num(ONE \div 10),
                Num(ONE \div 2), Num((99 * ONE) \div 100),
                Num((995 * ONE) \div 1000)}

RouteAmounts == {NaN, Num(2 * ONE), Num(3 * ONE), Num(4 * ONE), Num(5 * ONE),
                 Num(8 * ONE)}

\* The request bodies: text that is no JSON, or an object.  A limit order
\* names a size and a market order an amount; the polling options are
\* always named.
RouteBodies ==
    {[kind |-> "invalid"]}
    \cup {b \in [kind : {"json"}, market : BOOLEAN, side : {"BUY", "SELL"},
                 price : RoutePrices, size : RouteAmounts,
                 amount : RouteAmounts, tickSize : {Absent, "caller"},
                 negRisk : {Absent, "caller"}, awaitFill : BOOLEAN,
                 maxWaitMs : {0}, pollIntervalMs : {1}] :
            /\ b.market => b.size = NaN
            /\ ~b.market => b.amount = NaN
            /\ (b.tickSize = Absent) = (b.negRisk = Absent)}

Max(a, b) == IF a >= b THEN a ELSE b

Min(a, b) == IF a <= b THEN a ELSE b

\* A bug that floors without the tolerance.
FloorWithoutEpsilon(value, decimals) ==
    IF ~value.fin THEN value
    ELSE LET step == ONE \div (10 ^ decimals)
         IN  Num((value.v \div step) * step)

\* route.js lines 29-34
floorTo(value, decimals) ==
    IF ~value.fin THEN value
    ELSE LET step == ONE \div (10 ^ decimals)
         IN  Num(((value.v + NUMERIC_EPSILON) \div step) * step)

\* utils.js lines 43-47; min is a finite number of units
isBelowMin(value, min) ==
    \/ ~value.fin
    \/ value.v + NUMERIC_EPSILON < min

\* route.js lines 36-40.  1 / p is rounded down to a unit; it is exact for
\* every price at which it exceeds MIN_ORDER_SHARES here.
minSellSharesAtPrice(price) ==
    IF ~price.fin \/ price.v <= 0 THEN MIN_ORDER_SHARES * ONE
    ELSE Max(MIN_ORDER_SHARES * ONE,
             (MIN_ORDER_NOTIONAL_USD * ONE * ONE) \div price.v)

\* A bug that only clamps the request to the balance.
ClampToAvailable(requested, available, price) ==
    IF ~requested.fin \/ ~available.fin THEN requested
    ELSE Num(Min(requested.v, available.v))

\* route.js lines 42-53
adjustSellAmountToAvoidDust(requested, available, price) ==
    IF ~requested.fin \/ ~available.fin THEN requested
    ELSE LET next == Min(requested.v, available.v)
             remaining == available.v - next
         IN  IF remaining > 0
                /\ isBelowMin(Num(remaining), minSellSharesAtPrice(price))
             THEN available
             ELSE Num(next)

\* A band check that lets every price through.
NeverOutOfRange(price) == FALSE

\* A bug that rejects the two bounds of the band as well.
OutOfRangeAtBounds(price) ==
    price.v <= MIN_TRADABLE_PRICE \/ price.v >= MAX_TRADABLE_PRICE

\* route.js lines 62-65
isOutOfTradablePriceRange(price) ==
    \/ isBelowMin(price, MIN_TRADABLE_PRICE)
    \/ price.v > MAX_TRADABLE_PRICE + NUMERIC_EPSILON

\* utils.js lines 36-41, with min 0 and allowZero false
parseNumberFails(value) == ~value.fin \/ value.v <= 0

\* isBelowMin(amount * price, MIN_ORDER_NOTIONAL_USD), in units squared
notionalBelowMin(amount, price) ==
    amount.v * price.v + NUMERIC_EPSILON * ONE
        < MIN_ORDER_NOTIONAL_USD * ONE * ONE

\* isBelowMin(amount / price, MIN_ORDER_SHARES), multiplied by the price
sharesBelowMin(amount, price) ==
    amount.v * ONE + NUMERIC_EPSILON * price.v
        < MIN_ORDER_SHARES * ONE * price.v

NoDetails == [requestedSize |-> NullResult, requestedAmount |-> NullResult,
              submittedAmount |-> NullResult, available |-> NullResult]

\* jsonResponse and jsonError: the status, which return statement of the
\* route produced it, and the amounts it reports.
Response(status, rejection, details) ==
    [kind |-> "response", status |-> status, rejection |-> rejection,
     details |-> details]

\* A bug that leaves out the notional minimum of a limit order.
ValidationWithoutNotional(body) ==
    IF body.kind = "invalid" THEN "invalidJson"
    ELSE IF parseNumberFails(body.price) THEN "badPrice"
    ELSE IF body.market /\ isOutOfTradablePriceRange(body.price) THEN "priceBand"
    ELSE IF ~body.market /\ parseNumberFails(body.size) THEN "badSize"
    ELSE IF body.market /\ parseNumberFails(body.amount) THEN "badAmount"
    ELSE IF ~body.market /\ isBelowMin(body.size, MIN_ORDER_SHARES * ONE)
    THEN "limitMinSize"
    ELSE "none"

\* route.js lines 72-156: the checks made before any operation is called,
\* in the order of the code.  "none" when the request passes all of them.
Validation(body) ==
    IF body.kind = "invalid" THEN "invalidJson"
    ELSE IF parseNumberFails(body.price) THEN "badPrice"
    ELSE IF body.market /\ isOutOfTradablePriceRange(body.price) THEN "priceBand"
    ELSE IF ~body.market /\ parseNumberFails(body.size) THEN "badSize"
    ELSE IF body.market /\ parseNumberFails(body.amount) THEN "badAmount"
    ELSE IF ~body.market /\ isBelowMin(body.size, MIN_ORDER_SHARES * ONE)
    THEN "limitMinSize"
    ELSE IF ~body.market /\ notionalBelowMin(body.size, body.price)
    THEN "limitMinNotional"
    ELSE "none"

ValidationResponse(body, rejection) ==
    IF rejection \in {"limitMinSize", "limitMinNotional"}
    THEN Response(409, rejection, [NoDetails EXCEPT !.requestedSize = body.size])
    ELSE IF rejection = "priceBand" THEN Response(409, rejection, NoDetails)
    ELSE Response(400, rejection, NoDetails)

\* A bug that submits the requested amount, whatever the balance.
RequestedAmountOnly(side, amount, available, price) == floorTo(amount, 2)

\* A bug that clamps no BUY amount to the collateral.
SubmitUnclampedBuy(side, amount, available, price) ==
    IF side = "SELL"
    THEN floorTo(adjustSellAmountToAvoidDust(amount, Num(available), price), 2)
    ELSE floorTo(amount, 2)

\* route.js lines 170-173 and 212
SubmitAmount(side, amount, available, price) ==
    IF side = "SELL"
    THEN floorTo(adjustSellAmountToAvoidDust(amount, Num(available), price), 2)
    ELSE floorTo(Num(Min(amount.v, available)), 2)

\* A bug that leaves out the share minimum of a market BUY.
RejectionWithoutBuyShares(side, submitAmount, price) ==
    IF side = "SELL"
    THEN IF ~submitAmount.fin \/ submitAmount.v <= 0 THEN "sellNoBalance"
         ELSE IF isBelowMin(submitAmount, MIN_ORDER_SHARES * ONE)
         THEN "sellMinSize"
         ELSE IF notionalBelowMin(submitAmount, price) THEN "sellMinNotional"
         ELSE "none"
    ELSE IF isBelowMin(submitAmount, MIN_ORDER_NOTIONAL_USD * ONE)
         THEN "buyMinNotional"
         ELSE "none"

\* route.js lines 174-204 and 213-235
MarketRejection(side, submitAmount, price) ==
    IF side = "SELL"
    THEN IF ~submitAmount.fin \/ submitAmount.v <= 0 THEN "sellNoBalance"
         ELSE IF isBelowMin(submitAmount, MIN_ORDER_SHARES * ONE)
         THEN "sellMinSize"
         ELSE IF notionalBelowMin(submitAmount, price) THEN "sellMinNotional"
         ELSE "none"
    ELSE IF isBelowMin(submitAmount, MIN_ORDER_NOTIONAL_USD * ONE)
         THEN "buyMinNotional"
         ELSE IF sharesBelowMin(submitAmount, price) THEN "buyMinSize"
         ELSE "none"

\* A bug that leaves the adjusted amount out of the report.
DetailsWithoutSubmitted(req) ==
    [NoDetails EXCEPT !.requestedAmount = req.body.amount,
                      !.available = req.available]

MarketDetails(req) ==
    [NoDetails EXCEPT !.requestedAmount = req.body.amount,
                      !.submittedAmount = req.submitAmount,
                      !.available = req.available]

PlaceArgs(req) ==
    [returnError |-> TRUE, tickSize |-> req.body.tickSize,
     negRisk |-> req.body.negRisk,
     amount |-> IF req.body.market THEN req.submitAmount.v ELSE req.body.size.v,
     price |-> req.body.price.v]

Respond(tk, response) ==
    [next |-> "respond", tk |-> tk, response |-> response, sub |-> "route",
     args |-> NoArgs]

CallNext(tk, sub, args) ==
    [next |-> "call", tk |-> tk, response |-> NoResult, sub |-> sub,
     args |-> args]

\* route.js lines 72-164, 206 and 256: the body was read.
AfterBody(tk, body) ==
    LET rejection == Validation(body)
        tk1 == [tk EXCEPT !.req = [body |-> body, available |-> NullResult,
                                   submitAmount |-> NullResult]]
    IN  IF rejection # "none"
        THEN Respond(tk1, ValidationResponse(body, rejection))
        ELSE IF ~body.market
        THEN CallNext(tk1, "placeLimitOrder", PlaceArgs(tk1.req))
        ELSE IF body.side = "SELL"
        THEN CallNext(tk1, "fetchConditionalBalance", [tokenId |-> "token"])
        ELSE CallNext(tk1, "fetchCollateralBalance", NoArgs)

\* A bug that goes on with the requested amount when no balance arrived.
SubmitsWithoutBalance(tk) ==
    LET body == tk.req.body
        submitAmount == IF tk.ret = NullResult THEN floorTo(body.amount, 2)
                        ELSE SubmitAmount(body.side, body.amount,
                                          tk.ret.available, body.price)
        tk1 == [tk EXCEPT !.req.submitAmount = submitAmount,
                          !.req.available = IF tk.ret = NullResult THEN NullResult
                                            ELSE Num(tk.ret.available)]
        rejection == MarketRejection(body.side, submitAmount, body.price)
    IN  IF rejection # "none"
        THEN Respond(tk1, Response(409, rejection, MarketDetails(tk1.req)))
        ELSE CallNext(tk1, "placeMarketOrder", PlaceArgs(tk1.req))

\* route.js lines 165-238 and 207-238: the balance arrived.
AfterBalance(tk) ==
    IF tk.ret = NullResult
    THEN Respond(tk, Response(502, "balanceFailed", NoDetails))
    ELSE LET body == tk.req.body
             submitAmount == SubmitAmount(body.side, body.amount,
                                          tk.ret.available, body.price)
             tk1 == [tk EXCEPT !.req.available = Num(tk.ret.available),
                               !.req.submitAmount = submitAmount]
             rejection == MarketRejection(body.side, submitAmount, body.price)
         IN  IF rejection # "none"
             THEN Respond(tk1, Response(409, rejection, MarketDetails(tk1.req)))
             ELSE CallNext(tk1, "placeMarketOrder", PlaceArgs(tk1.req))

\* route.js lines 248-326: placeMarketOrder or placeLimitOrder returned.
AfterPlace(tk) ==
    LET details == IF tk.req.body.market THEN MarketDetails(tk.req) ELSE NoDetails
    IN  IF tk.ret = NullResult
        THEN Respond(tk, Response(502, "submissionFailed", NoDetails))
        ELSE IF tk.ret.kind = "error"
        THEN Respond(tk, Response(502, "orderError", details))
        ELSE IF ~tk.req.body.awaitFill
        THEN Respond(tk, Response(200, "none", details))
        ELSE CallNext(tk, "fetchOrderFills",
                      [maxWaitMs |-> tk.req.body.maxWaitMs,
                       pollIntervalMs |-> tk.req.body.pollIntervalMs,
                       preferTrades |-> tk.req.body.market])

\* route.js lines 327-342: fetchOrderFills returned.
AfterFills(tk) ==
    Respond(tk, Response(200, "none",
                         IF tk.req.body.market THEN MarketDetails(tk.req)
                         ELSE NoDetails))

\* The route's step takes effect: it responds, or calls an operation,
\* which runs up to its await of getClobContext.
Continue(t, q, step) ==
    IF step.next = "call"
    THEN /\ GetClobContextCall(t)
         /\ task' = [task EXCEPT ![t] = Enter(t, step.tk, step.sub, step.args)]
         /\ microtasks' = EnterQueue(q, t, step.tk, step.sub)
    ELSE /\ UNCHANGED sessionVars
         /\ task' = [task EXCEPT ![t] = [step.tk EXCEPT !.pc = "done",
                                                        !.sub = "route",
                                                        !.result = step.response]]
         /\ microtasks' = q

\* route.js lines 68-73 and utils.js lines 20-28: a request arrives.
CallRoute(t) ==
    /\ Quiet
    /\ task[t].pc = "idle"
    /\ task' = [task EXCEPT ![t] =
                  IF ImmediateNull
                  THEN [IdleTask EXCEPT !.op = "route", !.sub = "route",
                                        !.pc = "done",
                                        !.result = Response(403, "disabled", NoDetails)]
                  ELSE [IdleTask EXCEPT !.op = "route", !.sub = "route",
                                        !.pc = "awaitBody"]]
    /\ UNCHANGED <<config, configChanges, sessionVars, microtasks>>

\* route.js line 73: the body was read.
BodyRead(t, body) ==
    /\ Waits(t, "route", "awaitBody")
    /\ Continue(t, microtasks, AfterBody(task[t], body))
    /\ UNCHANGED <<config, configChanges>>

\* The operation the route called returned and the route goes on.
RouteResume(t) ==
    /\ microtasks # <<>>
    /\ Head(microtasks) = t
    /\ task[t].pc = "returned"
    /\ Continue(t, Tail(microtasks),
                IF task[t].sub \in BalanceOps THEN AfterBalance(task[t])
                ELSE IF task[t].sub \in PlaceOps THEN AfterPlace(task[t])
                ELSE AfterFills(task[t]))
    /\ UNCHANGED <<config, configChanges>>

\* The exchange's answers tried under the route.
RoutePostOutcomes ==
    {r \in PostOutcomes :
        r.kind = "object" =>
            /\ r.orderId = Absent
            /\ r.orderID \in {Absent, "A"}
            /\ r.status = "live"}

RouteOrderOutcomes ==
    {r \in OrderOutcomes :
        r.kind = "object" =>
            /\ r.status \in {"live", "matched"}
            /\ r.associate_trades <= 1
            /\ r.size_matched = [kind |-> "num", v |-> 2 * ONE]
            /\ r.price = [kind |-> "num", v |-> ONE \div 2]}

InitRoute ==
    /\ InitModule
    /\ task = [t \in RouteTasks |-> IdleTask]

NextRoute ==
    \/ \E t \in RouteTasks : CallRoute(t)
    \/ \E t \in RouteTasks, body \in RouteBodies : BodyRead(t, body)
    \/ \E t \in RouteTasks : RouteResume(t)
    \/ \E t \in RouteTasks : ResumeRead(t)
    \/ \E t \in RouteTasks, r \in BalanceOutcomes : BalanceResponse(t, r)
    \/ \E t \in RouteTasks : ResumePlaceOrder(t)
    \/ \E t \in RouteTasks, ok \in BOOLEAN : TickSizeResponse(t, ok)
    \/ \E t \in RouteTasks, ok \in BOOLEAN : NegRiskResponse(t, ok)
    \/ \E t \in RouteTasks, r \in RoutePostOutcomes : PostResponse(t, r)
    \/ \E t \in RouteTasks : ResumeFetchOrderFills(t)
    \/ \E t \in RouteTasks, r \in RouteOrderOutcomes : OrderResponse(t, r, 0)
    \/ \E t \in RouteTasks, r \in TradeOutcomes : TradeResponse(t, r)
    \/ \E t \in RouteTasks : SleepDone(t)
    \/ \E a \in RouteTasks, ok \in BOOLEAN : CreateResponse(a, ok)
    \/ \E a \in RouteTasks, ok \in BOOLEAN : DeriveResponse(a, ok)

SpecRoute == InitRoute /\ [][NextRoute]_vars

\* Market orders whose amount or balance lies within NUMERIC_EPSILON below
\* a multiple of 0.01, where the tolerance of floorTo decides the amount.
EdgeBodies ==
    {b \in [kind : {"json"}, market : {TRUE}, side : {"BUY", "SELL"},
            price : {Num(ONE \div 2)}, size : {NaN},
            amount : {Num(4 * ONE), Num(5 * ONE - NUMERIC_EPSILON),
                      Num(8 * ONE)},
            tickSize : {Absent, "caller"}, negRisk : {Absent, "caller"},
            awaitFill : BOOLEAN, maxWaitMs : {0}, pollIntervalMs : {1}] :
        (b.tickSize = Absent) = (b.negRisk = Absent)}

EdgeBalanceOutcomes ==
    {[kind |-> "raise"]}
    \cup [kind : {"object"},
          balance : RawNumbers({5 * ONE - NUMERIC_EPSILON, 10 * ONE})]

NextRouteEdge ==
    \/ \E t \in RouteTasks : CallRoute(t)
    \/ \E t \in RouteTasks, body \in EdgeBodies : BodyRead(t, body)
    \/ \E t \in RouteTasks : RouteResume(t)
    \/ \E t \in RouteTasks : ResumeRead(t)
    \/ \E t \in RouteTasks, r \in EdgeBalanceOutcomes : BalanceResponse(t, r)
    \/ \E t \in RouteTasks : ResumePlaceOrder(t)
    \/ \E t \in RouteTasks, ok \in BOOLEAN : TickSizeResponse(t, ok)
    \/ \E t \in RouteTasks, ok \in BOOLEAN : NegRiskResponse(t, ok)
    \/ \E t \in RouteTasks, r \in RoutePostOutcomes : PostResponse(t, r)
    \/ \E t \in RouteTasks : ResumeFetchOrderFills(t)
    \/ \E t \in RouteTasks, r \in RouteOrderOutcomes : OrderResponse(t, r, 0)
    \/ \E t \in RouteTasks, r \in TradeOutcomes : TradeResponse(t, r)
    \/ \E t \in RouteTasks : SleepDone(t)
    \/ \E a \in RouteTasks, ok \in BOOLEAN : CreateResponse(a, ok)
    \/ \E a \in RouteTasks, ok \in BOOLEAN : DeriveResponse(a, ok)

SpecRouteEdge == InitRoute /\ [][NextRouteEdge]_vars

(***************************************************************************)
(* Two requests of the order route at once, market SELLs of the same       *)
(* instrument, against an exchange that holds its balance.                 *)
(***************************************************************************)
NRaceCallers == 2

RaceTasks == 1..NRaceCallers

\* The conditional balance the exchange holds before any order.
RaceBalance == 10 * ONE

RaceBodies ==
    {b \in RouteBodies :
        /\ b.kind = "json"
        /\ b.market
        /\ b.side = "SELL"
        /\ b.price = Num(ONE \div 2)
        /\ b.amount \in {Num(5 * ONE), Num(8 * ONE)}
        /\ b.tickSize = "caller"
        /\ ~b.awaitFill}

\* The exchange accepted the order the request submitted.
Accepted(tk) ==
    /\ tk.op = "route"
    /\ tk.loc # NoArgs
    /\ "metadataError" \in DOMAIN tk.loc
    /\ tk.loc.response.kind = "object"

RECURSIVE SoldUpTo(_)
SoldUpTo(n) ==
    IF n = 0 THEN 0
    ELSE (IF Accepted(task[n]) THEN task[n].req.submitAmount.v ELSE 0)
         + SoldUpTo(n - 1)

\* What the exchange holds: the balance less the orders it accepted.
ExchangeBalance == RaceBalance - SoldUpTo(Len(task))

RECURSIVE PendingUpTo(_)
PendingUpTo(n) ==
    IF n = 0 THEN 0
    ELSE (IF task[n].op = "route" /\ task[n].pc = "awaitPost"
          THEN task[n].req.submitAmount.v ELSE 0)
         + PendingUpTo(n - 1)

\* A route that reserves what the requests in flight are about to sell.
BalanceLessPending == Max(0, ExchangeBalance - PendingUpTo(Len(task)))

\* route.js line 164: the balance of the request is what the exchange
\* holds when the query is answered; nothing is reserved for the requests
\* that read it before.
BalanceRead == ExchangeBalance

\* getBalanceAllowance returns the balance of the exchange, or raises.
RaceBalanceResponse(t, ok) ==
    BalanceResponse(t, IF ok
                       THEN [kind |-> "object",
                             balance |-> [kind |-> "num", v |-> BalanceRead]]
                       ELSE [kind |-> "raise"])

\* createAndPostMarketOrder: the exchange takes the order when it holds
\* the shares, and refuses it otherwise.
RacePostResponse(t) ==
    /\ task[t].pc = "awaitPost"
    /\ PostResponse(t, IF task[t].args.amount <= ExchangeBalance
                       THEN [kind |-> "object", orderID |-> "A",
                             orderId |-> Absent, status |-> "live"]
                       ELSE [kind |-> "raise"])

InitRace ==
    /\ InitModule
    /\ task = [t \in RaceTasks |-> IdleTask]

NextRace ==
    \/ \E t \in RaceTasks : CallRoute(t)
    \/ \E t \in RaceTasks, body \in RaceBodies : BodyRead(t, body)
    \/ \E t \in RaceTasks : RouteResume(t)
    \/ \E t \in RaceTasks : ResumeRead(t)
    \/ \E t \in RaceTasks, ok \in BOOLEAN : RaceBalanceResponse(t, ok)
    \/ \E t \in RaceTasks : ResumePlaceOrder(t)
    \/ \E t \in RaceTasks : RacePostResponse(t)
    \/ \E a \in RaceTasks, ok \in BOOLEAN : CreateResponse(a, ok)
    \/ \E a \in RaceTasks, ok \in BOOLEAN : DeriveResponse(a, ok)

SpecRace == InitRace /\ [][NextRace]_vars

(***************************************************************************)
(* The sizing functions of the route on their own: one invocation of a     *)
(* function with arguments drawn from the sets below.                      *)
(***************************************************************************)
SizingRequested == {Num(2 * ONE), Num(4 * ONE), Num(5 * ONE), Num(8 * ONE),
                    Num(12 * ONE)}

SizingAvailable == {Num(0), Num(3 * ONE), Num(10 * ONE),
                    Num(10 * ONE + ONE \div 200), Num(20 * ONE)}

SizingPrices == {Num(0 - ONE \div 2), Num(ONE \div 20), Num(ONE \div 10),
                 Num(ONE \div 2)}

SizingCalls ==
    [op : {"adjustSellAmountToAvoidDust"},
     args : [requested : SizingRequested, available : SizingAvailable,
             price : SizingPrices]]

\* adjustSellAmountToAvoidDust(requested, available, price) is evaluated.
ApplyAdjustSell(t) ==
    /\ task[t].op = "adjustSellAmountToAvoidDust"
    /\ task[t].pc = "idle"
    /\ task' = [task EXCEPT
                  ![t].pc = "done",
                  ![t].result = adjustSellAmountToAvoidDust(
                                    task[t].args.requested,
                                    task[t].args.available,
                                    task[t].args.price)]
    /\ UNCHANGED <<config, configChanges, sessionVars, microtasks>>

MaxTrades == 3

\* Trades as getTrades gives them, after Number(): a size and a price that
\* are numbers or not.
AggregateTrades ==
    [size : {NaN, Num(0 - 2 * ONE), Num(2 * ONE), Num(3 * ONE)},
     price : {NaN, Num((4 * ONE) \div 10), Num((6 * ONE) \div 10)}]

RECURSIVE TradeLists(_)
TradeLists(n) ==
    IF n = 0 THEN {<<>>}
    ELSE TradeLists(n - 1)
         \cup {Append(l, x) : l \in {m \in TradeLists(n - 1) : Len(m) = n - 1},
                               x \in AggregateTrades}

AggregateCalls ==
    [op : {"computeFillFromTrades"}, args : [trades : TradeLists(MaxTrades)]]

\* computeFillFromTrades(trades) is evaluated.
ApplyComputeFill(t) ==
    /\ task[t].op = "computeFillFromTrades"
    /\ task[t].pc = "idle"
    /\ task' = [task EXCEPT
                  ![t].pc = "done",
                  ![t].result = computeFillFromTrades(task[t].args.trades)]
    /\ UNCHANGED <<config, configChanges, sessionVars, microtasks>>

\* Values about the steps of 0.01 and of 1, one tolerance apart, and the
\* decimals 0, 2 and 4.
FloorValues ==
    {NaN} \cup {Num(v) : v \in {0 - 12290, 0 - ONE, 0 - 1, 0, 1, 99, 100,
                                ONE - 2, ONE - 1, ONE, ONE + 1, 12290, 12299,
                                12300}}

FloorCalls ==
    [op : {"floorTo"}, args : [value : FloorValues, decimals : {0, 2, 4}]]

\* floorTo(value, decimals) is evaluated.
ApplyFloorTo(t) ==
    /\ task[t].op = "floorTo"
    /\ task[t].pc = "idle"
    /\ task' = [task EXCEPT
                  ![t].pc = "done",
                  ![t].result = floorTo(task[t].args.value, task[t].args.decimals)]
    /\ UNCHANGED <<config, configChanges, sessionVars, microtasks>>

InitSizing ==
    /\ InitModule
    /\ \E c \in SizingCalls \cup AggregateCalls \cup FloorCalls :
          task = <<[IdleTask EXCEPT !.op = c.op, !.sub = c.op, !.args = c.args]>>

NextSizing ==
    \/ \E t \in DOMAIN task : ApplyAdjustSell(t)
    \/ \E t \in DOMAIN task : ApplyComputeFill(t)
    \/ \E t \in DOMAIN task : ApplyFloorTo(t)

SpecSizing == InitSizing /\ [][NextSizing]_vars

(***************************************************************************)
(* Properties of the session manager.                                      *)
(***************************************************************************)
GetSessionTasks == {t \in Tasks : task[t].op = "getSession"}

\* The callers that called while no session existed yet and so await
\* attempt a: they started it or joined it while it was in flight.
ColdCallers(a) ==
    {t \in Tasks : /\ task[t].att = a
                   /\ task[t].joinedPhase \in {"new", "create", "derive"}}

Settled(a) == attempts[a].phase \in {"resolved", "rejected"}

\* C1. When two or more callers invoke getClobContext concurrently during a
\* cold start (enabled, key configured, no session yet), exactly one
\* createOrDeriveApiKey request is issued (followed by at most one
\* deriveApiKey fallback), all callers that wait at the same time wait for
\* that one attempt, and each of them receives its outcome: the context when
\* it resolved, null when it was rejected.
C1_SingleSharedAttempt ==
    /\ \A a \in 1..Len(attempts) :
          Cardinality(ColdCallers(a)) >= 2 =>
              attempts[a].creates = 1 /\ attempts[a].derives <= 1
    /\ \A t1, t2 \in Tasks :
          task[t1].pc = "awaitCtx" /\ task[t2].pc = "awaitCtx" =>
              task[t1].att = task[t2].att
    /\ \A t \in GetSessionTasks :
          task[t].pc = "done" /\ task[t].att # 0 =>
              /\ Settled(task[t].att)
              /\ task[t].result = GetClobContextValue(task[t].att)
              /\ (task[t].result = NullResult) =
                     (attempts[task[t].att].phase = "rejected")

\* C1 witness: every caller of the model joined the first attempt while it
\* was in flight, one request was issued, and all of them hold its context.
C1_Witness ==
    /\ Len(attempts) = 1
    /\ attempts[1].creates = 1
    /\ ColdCallers(1) = Tasks
    /\ \A t \in Tasks : task[t].pc = "done" /\ task[t].result = CtxResult(1)

\* C2. A failed attempt is not cached: once the event loop is between
\* events the memo never holds a rejected promise, no call ever joins an
\* attempt that has already failed (the call after a failure starts a fresh
\* attempt), and a caller of an attempt that resolves receives its Session.
C2_FailureNotCached ==
    /\ Quiet => \/ clobContextPromise = 0
                \/ attempts[clobContextPromise].phase # "rejected"
    /\ \A t \in Tasks : task[t].joinedPhase # "rejected"
    /\ \A t \in GetSessionTasks :
          /\ task[t].pc = "done"
          /\ task[t].att # 0
          /\ attempts[task[t].att].phase = "resolved"
          => task[t].result = CtxResult(task[t].att)

\* C2 witness: the credentials of attempt 1 failed, the next call started
\* attempt 2, and its caller holds the Session of attempt 2.
C2_Witness ==
    /\ Len(attempts) >= 2
    /\ attempts[1].failure = "credentials"
    /\ \E t \in GetSessionTasks :
          /\ task[t].started
          /\ task[t].att = 2
          /\ task[t].result = CtxResult(2)

\* C3. getClobContext never throws: whatever fails inside the attempt
\* (signer construction, both credential requests, client construction)
\* every caller that awaited it receives null, and the memo no longer holds
\* the failed attempt.
C3_InitFailureYieldsNull ==
    \A t \in GetSessionTasks :
        /\ ~task[t].threw
        /\ task[t].pc = "done" /\ task[t].att # 0
             /\ attempts[task[t].att].phase = "rejected"
           => /\ task[t].result = NullResult
              /\ clobContextPromise # task[t].att

\* C3 witness: three attempts failed, one for each cause, and the caller of
\* each received null.
C3_Witness ==
    /\ \A f \in {"signer", "credentials", "client"} :
          \E t \in GetSessionTasks :
              /\ task[t].pc = "done"
              /\ task[t].att # 0
              /\ attempts[task[t].att].failure = f
              /\ task[t].result = NullResult
    /\ clobContextPromise = 0

\* A step in which a caller invokes an operation while trading is enabled
\* and a private key is configured.
KeyedCallStep ==
    /\ config.enabled
    /\ config.privateKey # ""
    /\ config' = config
    /\ \E t \in DOMAIN task : task[t].pc = "idle" /\ task'[t].pc # "idle"

\* C17. The missing-key warning is emitted at most once per missing-key
\* episode: an emission happens only while the warning flag is down and
\* raises it, and the flag is lowered only by a getSession call made while
\* trading is enabled and a private key is configured; so such a call lies
\* between any two emissions.
C17_WarningOncePerEpisode ==
    /\ [][warnings' # warnings =>
            /\ warnings' = warnings + 1
            /\ ~warnedMissingKey
            /\ warnedMissingKey']_vars
    /\ [][warnedMissingKey /\ ~warnedMissingKey' => KeyedCallStep]_vars

\* C17 witness: the warning was emitted twice, and a call made with a key
\* has ended.
C17_Witness ==
    /\ warnings = 2
    /\ \E t \in GetSessionTasks : task[t].pc = "done" /\ task[t].att # 0

\* C18. When trading is disabled, getSession returns null immediately: it
\* starts no initialization, issues no credential request, emits no
\* missing-key warning and leaves the session memo and the warning flag
\* unchanged, whatever their values.
C18_DisabledIsInert ==
    [][\A t \in GetSessionTasks' :
          task[t].pc = "idle" /\ task'[t].pc # "idle" /\ ~config.enabled =>
              /\ task'[t].pc = "done"
              /\ task'[t].result = NullResult
              /\ ~task'[t].threw
              /\ task'[t].calls = <<>>
              /\ task'[t].att = 0
              /\ attempts' = attempts
              /\ clobContextPromise' = clobContextPromise
              /\ warnedMissingKey' = warnedMissingKey
              /\ warnings' = warnings
              /\ microtasks' = microtasks]_vars

\* C18 witness: getSession was called while trading was disabled, the memo
\* held a session and the warning flag was up; it returned null and both
\* are as they were.
C18_Witness ==
    /\ ~config.enabled
    /\ clobContextPromise # 0
    /\ warnedMissingKey
    /\ warnings = 1
    /\ \E t \in GetSessionTasks :
          /\ task[t].pc = "done"
          /\ task[t].joinedPhase = "disabled"
          /\ task[t].result = NullResult

Succeeded == {a \in 1..Len(attempts) : attempts[a].phase = "resolved"}

\* C20. Exactly one Session exists per process: once an initialization
\* attempt has succeeded, every later getClobContext call made while
\* trading is enabled and a key is configured returns the Session of that
\* attempt, and no further credential request is ever issued.
C20_OneSessionPerProcess ==
    /\ [](Cardinality(Succeeded) <= 1)
    /\ [](\A t \in GetSessionTasks :
             task[t].pc = "done" /\ task[t].joinedPhase = "resolved" =>
                 /\ ~task[t].threw
                 /\ task[t].att \in Succeeded
                 /\ task[t].result = CtxResult(task[t].att))
    /\ [][Succeeded # {} =>
             /\ attempts' = attempts
             /\ \A t \in GetSessionTasks' :
                    /\ task[t].pc = "idle"
                    /\ task'[t].pc # "idle"
                    /\ config.enabled
                    /\ config.privateKey # ""
                    => /\ task'[t].att \in Succeeded
                       /\ task'[t].joinedPhase = "resolved"
                       /\ task'[t].calls = <<>>]_vars

\* C20 witness: after the configuration changed, a caller that joined the
\* succeeded attempt got its Session, the one the starter of the attempt got.
C20_Witness ==
    /\ configChanges > 0
    /\ \E t, u \in GetSessionTasks :
          /\ t # u
          /\ task[t].pc = "done"
          /\ task[t].joinedPhase = "resolved"
          /\ task[u].pc = "done"
          /\ task[u].started
          /\ task[u].att = task[t].att
          /\ task[t].result = CtxResult(task[t].att)
          /\ task[u].result = task[t].result

\* The attempts whose requests are not answered yet.
InFlight == {a \in 1..Len(attempts) : attempts[a].phase \in {"create", "derive"}}

\* C35. At every moment at most one initialization attempt is in flight,
\* also across failure and retry: the callers that awaited a failed attempt
\* clear the memo only while it holds that attempt, never a newer attempt
\* in flight, so an attempt in flight is always the memoized one and a
\* retry is never duplicated.
C35_OneAttemptInFlight ==
    /\ [](Cardinality(InFlight) <= 1)
    /\ [](\A a \in InFlight : clobContextPromise = a)
    /\ [][clobContextPromise # 0 /\ clobContextPromise' = 0 =>
             attempts[clobContextPromise].phase = "rejected"]_vars
    /\ [][\A t \in GetSessionTasks :
             task[t].pc = "awaitCtx" /\ task'[t].pc = "done" =>
                 clobContextPromise \in {0, task[t].att}]_vars

\* C35 witness: two callers awaited the first attempt, it failed and both
\* cleared the memo; a later caller started the second attempt, which is in
\* flight and memoized.
C35_Witness ==
    \E t, u, w \in GetSessionTasks :
        /\ t # u
        /\ task[t].att = 1 /\ task[t].pc = "done" /\ task[t].result = NullResult
        /\ task[u].att = 1 /\ task[u].pc = "done" /\ task[u].result = NullResult
        /\ attempts[1].phase = "rejected"
        /\ attempts[1].failure = "credentials"
        /\ task[w].att = 2
        /\ task[w].started
        /\ InFlight = {2}
        /\ clobContextPromise = 2

(***************************************************************************)
(* Properties of placeLimitOrder and placeMarketOrder.                     *)
(***************************************************************************)
CallCount(tk, name) == Cardinality({i \in DOMAIN tk.calls : tk.calls[i] = name})

Submitted(tk) == \E i \in DOMAIN tk.calls : tk.calls[i] = SubmitCall(tk.sub)

Answered(tk) ==
    /\ tk.op \in PlaceOps
    /\ tk.pc = "done"
    /\ Submitted(tk)

NoIdentifier(r) ==
    /\ r.kind # "raise"
    /\ Field(r, "orderID") \in {Absent, ""}
    /\ Field(r, "orderId") \in {Absent, ""}

\* C4. Whenever the submission call of placeLimitOrder or placeMarketOrder
\* returns without raising and the response carries no non-empty order
\* identifier, the result is a failure: the structured error with an empty
\* orderId when returnError is set, null otherwise; never {orderId, status}.
C4_EmptyIdentifierIsFailure ==
    \A t \in DOMAIN task :
        Answered(task[t]) /\ NoIdentifier(task[t].loc.response) =>
            /\ task[t].result.kind # "order"
            /\ ~task[t].threw
            /\ IF task[t].args.returnError
               THEN task[t].result.kind = "error" /\ task[t].result.orderId = ""
               ELSE task[t].result = NullResult

\* C4 witness: a submission returned an object with an empty orderID and a
\* status, and the caller got the structured error.
C4_Witness ==
    \E t \in DOMAIN task :
        /\ Answered(task[t])
        /\ task[t].loc.response.kind = "object"
        /\ task[t].loc.response.orderID = ""
        /\ task[t].loc.response.orderId = Absent
        /\ task[t].loc.response.status = "live"
        /\ task[t].result = [kind |-> "error", orderId |-> "", status |-> "live",
                             error |-> "missing orderId in response"]

\* getClobContext gave the operation no session.
NoSession(tk) ==
    /\ tk.pc = "done"
    /\ tk.att = 0 \/ attempts[tk.att].phase = "rejected"

\* getTickSize or getNegRisk raised.
MetadataFailed(tk) == tk.loc # NoArgs /\ tk.loc.metadataError

\* The submission call raised.
SubmissionRaised(tk) == Answered(tk) /\ tk.loc.response.kind = "raise"

\* The number of the first call of name c among the calls of tk, 0 if none.
FirstCall(tk, c) ==
    IF \E i \in DOMAIN tk.calls : tk.calls[i] = c
    THEN CHOOSE i \in DOMAIN tk.calls :
            /\ tk.calls[i] = c
            /\ \A j \in 1..(i - 1) : tk.calls[j] # c
    ELSE 0

\* C21. In every failure mode of placeLimitOrder and placeMarketOrder (no
\* session, metadata query failure, submission call raising, empty
\* identifier in the response) the call returns the structured error with
\* an empty orderId when returnError is set and null otherwise; it never
\* raises and never returns a success record.
C21_FailureIsErrorOrNull ==
    \A t \in DOMAIN task :
        task[t].op \in PlaceOps =>
            /\ ~task[t].threw
            /\ \/ NoSession(task[t])
               \/ MetadataFailed(task[t])
               \/ SubmissionRaised(task[t])
               \/ Answered(task[t]) /\ NoIdentifier(task[t].loc.response)
               => /\ task[t].pc = "done"
                  /\ task[t].result.kind # "order"
                  /\ IF task[t].args.returnError
                     THEN /\ task[t].result.kind = "error"
                          /\ task[t].result.orderId = ""
                     ELSE task[t].result = NullResult

\* C21 witness: the submission call raised for a caller that had not set
\* returnError, and the caller got null.
C21_Witness ==
    \E t \in DOMAIN task :
        /\ task[t].op \in PlaceOps
        /\ SubmissionRaised(task[t])
        /\ ~task[t].args.returnError
        /\ task[t].result = NullResult
        /\ ~task[t].threw

\* C22. If the metadata query fails inside placeLimitOrder or
\* placeMarketOrder, the call ends with the error "metadata fetch failed"
\* (or null) and no order submission call is made for that request.
C22_MetadataFailureStopsOrder ==
    \A t \in DOMAIN task :
        task[t].op \in PlaceOps /\ MetadataFailed(task[t]) =>
            /\ task[t].pc = "done"
            /\ ~task[t].threw
            /\ ~Submitted(task[t])
            /\ task[t].calls[Len(task[t].calls)] \in {"getTickSize", "getNegRisk"}
            /\ task[t].result =
                  IF task[t].args.returnError
                  THEN [kind |-> "error", orderId |-> "", status |-> "",
                        error |-> "metadata fetch failed"]
                  ELSE NullResult

\* C22 witness: getTickSize returned, getNegRisk raised, and the caller,
\* who had set returnError, got the metadata error without a submission.
C22_Witness ==
    \E t \in DOMAIN task :
        /\ task[t].op \in PlaceOps
        /\ MetadataFailed(task[t])
        /\ task[t].args.returnError
        /\ FirstCall(task[t], "getNegRisk") = Len(task[t].calls)
        /\ task[t].result.kind = "error"
        /\ task[t].result.error = "metadata fetch failed"
        /\ ~Submitted(task[t])

\* C23. When both the tick-size and the negative-risk override are
\* supplied, placeLimitOrder and placeMarketOrder issue no metadata query;
\* when at least one is missing, both values are queried from the client
\* before the submission.
C23_MetadataQueriedUnlessBothSupplied ==
    \A t \in DOMAIN task :
        task[t].op \in PlaceOps =>
            LET tk == task[t]
                supplied == tk.args.tickSize # Absent /\ tk.args.negRisk # Absent
            IN  /\ supplied =>
                      /\ CallCount(tk, "getTickSize") = 0
                      /\ CallCount(tk, "getNegRisk") = 0
                /\ ~supplied /\ Submitted(tk) =>
                      /\ CallCount(tk, "getTickSize") = 1
                      /\ CallCount(tk, "getNegRisk") = 1
                      /\ FirstCall(tk, "getTickSize") < FirstCall(tk, "getNegRisk")
                      /\ FirstCall(tk, "getNegRisk")
                            < FirstCall(tk, SubmitCall(tk.sub))
                /\ CallCount(tk, SubmitCall(tk.sub)) <= 1

\* C23 witness: the caller supplied the tick size only, and the order was
\* submitted after both values had been queried.
C23_Witness ==
    \E t \in DOMAIN task :
        /\ task[t].op \in PlaceOps
        /\ task[t].args.tickSize # Absent
        /\ task[t].args.negRisk = Absent
        /\ Submitted(task[t])
        /\ CallCount(task[t], "getTickSize") = 1
        /\ CallCount(task[t], "getNegRisk") = 1

\* C29. Whenever the caller supplies a tick size or a negative-risk flag to
\* placeLimitOrder or placeMarketOrder, the order is submitted with exactly
\* that value, also when the other value is not supplied and is fetched.
C29_OverrideIsSubmitted ==
    \A t \in DOMAIN task :
        task[t].op \in PlaceOps /\ Submitted(task[t]) =>
            /\ task[t].args.tickSize # Absent =>
                  task[t].loc.tickSize = task[t].args.tickSize
            /\ task[t].args.negRisk # Absent =>
                  task[t].loc.negRisk = task[t].args.negRisk

\* C30. Whenever the response of the exchange carries a non-empty order
\* identifier under at least one of the fields orderID and orderId,
\* placeLimitOrder and placeMarketOrder return a success record with that
\* identifier.
C30_EitherIdentifierIsAccepted ==
    \A t \in DOMAIN task :
        task[t].op \in PlaceOps /\ Answered(task[t])
                /\ task[t].loc.response.kind = "object" =>
            LET ids == {task[t].loc.response.orderID, task[t].loc.response.orderId}
                          \ {Absent, ""}
            IN  ids # {} =>
                   /\ task[t].result.kind = "order"
                   /\ task[t].result.orderId \in ids

\* C36. Each call of placeLimitOrder or placeMarketOrder issues at most one
\* order submission call to the exchange: a failed or identifier-less
\* submission is never retried inside the call, so one request never
\* creates two orders.
C36_SingleSubmission ==
    \A t \in DOMAIN task :
        task[t].op \in PlaceOps =>
            /\ CallCount(task[t], "createAndPostOrder")
                  + CallCount(task[t], "createAndPostMarketOrder") <= 1
            /\ Submitted(task[t]) =>
                  /\ task[t].calls[Len(task[t].calls)] = SubmitCall(task[t].op)
                  /\ \/ task[t].pc = "awaitPost"
                           /\ task[t].loc.response = [kind |-> "none"]
                     \/ task[t].pc = "done"
                           /\ task[t].loc.response # [kind |-> "none"]

\* C36 witness: the submission returned an object without an identifier,
\* the call ended with null, and the order was submitted once.
C36_Witness ==
    \E t \in DOMAIN task :
        /\ Answered(task[t])
        /\ task[t].loc.response.kind = "object"
        /\ NoIdentifier(task[t].loc.response)
        /\ ~task[t].args.returnError
        /\ task[t].result = NullResult
        /\ CallCount(task[t], SubmitCall(task[t].op)) = 1

(***************************************************************************)
(* Properties of fetchOrder, cancelOrder and the balance queries.          *)
(***************************************************************************)
\* The exchange answered the one request of a read operation.
ReadAnswered(tk) == tk.pc = "done" /\ tk.loc # NoArgs

\* C27. cancelOrder returns true if and only if a session is available and
\* the cancel call of the client returned without raising, false otherwise;
\* fetchOrder returns the order snapshot of the client, or null when there
\* is no session or the call raises; neither ever throws.
C27_CancelAndFetchNeverThrow ==
    \A t \in DOMAIN task :
        task[t].op \in {"cancelOrder", "fetchOrder"} =>
            /\ ~task[t].threw
            /\ CallCount(task[t], ReadCallName(task[t].op)) <= 1
            /\ task[t].pc = "done" =>
                  LET returned == /\ ~NoSession(task[t])
                                  /\ ReadAnswered(task[t])
                                  /\ task[t].loc.response.kind # "raise"
                  IN  /\ ~NoSession(task[t]) => ReadAnswered(task[t])
                      /\ task[t].op = "cancelOrder" =>
                            task[t].result = BoolResult(returned)
                      /\ task[t].op = "fetchOrder" =>
                            task[t].result =
                                IF returned /\ task[t].loc.response.kind = "object"
                                THEN task[t].loc.response
                                ELSE NullResult

\* C27 witness: one cancelOrder returned true after the client returned
\* nothing, and another call, a fetchOrder whose client call raised,
\* returned null.
C27_Witness ==
    \E t, u \in DOMAIN task :
        /\ task[t].op = "cancelOrder"
        /\ ReadAnswered(task[t])
        /\ task[t].loc.response.kind = "absent"
        /\ task[t].result = BoolResult(TRUE)
        /\ task[u].op = "fetchOrder"
        /\ ReadAnswered(task[u])
        /\ task[u].loc.response.kind = "raise"
        /\ task[u].result = NullResult
        /\ ~task[u].threw

\* C28. fetchCollateralBalance and fetchConditionalBalance issue at most
\* one balance query per call; when the query raises they return null;
\* otherwise they return an available amount that is a finite number: the
\* queried balance when it is finite and 0 when it is not.
C28_AvailableIsFinite ==
    \A t \in DOMAIN task :
        task[t].op \in BalanceOps =>
            /\ CallCount(task[t], "getBalanceAllowance") <= 1
            /\ task[t].loc # NoArgs =>
                  IF task[t].loc.response.kind = "raise"
                  THEN task[t].pc = "done" /\ ~task[t].threw
                          /\ task[t].result = NullResult
                  ELSE LET balance == IF task[t].loc.response.kind = "object"
                                      THEN NumberOrZero(task[t].loc.response.balance)
                                      ELSE Num(0)
                       IN  /\ task[t].pc = "done"
                           /\ ~task[t].threw
                           /\ task[t].result.kind = "balance"
                           /\ task[t].result.available =
                                 IF balance.fin THEN balance.v ELSE 0

(***************************************************************************)
(* Properties of fetchOrderFills.                                          *)
(***************************************************************************)
\* The invocation is in the sleep of line 350 after an iteration that
\* fetched an order.
SleepsAfterOrder(tk) ==
    /\ tk.sub = "fetchOrderFills"
    /\ tk.pc = "sleep"
    /\ tk.loc.lastOrder.kind = "object"

\* The aggregate filled size of the trades of the order of the iteration.
IterationFill(loc) ==
    IF TradeIdCount(loc.lastOrder) > 0
    THEN computeFillFromTrades(loc.trades).filledSize
    ELSE 0

FillsReturned(tk) ==
    /\ tk.sub = "fetchOrderFills"
    /\ tk.pc \in {"done", "returned"}
    /\ (IF tk.pc = "done" THEN tk.result ELSE tk.ret).kind = "fills"

FillsResult(tk) == IF tk.pc = "done" THEN tk.result ELSE tk.ret

\* C5. In every poll iteration in which the fetched order's status is no
\* longer "live" or the aggregate filled size of its trades is > 0,
\* fetchOrderFills returns in that iteration: it never sleeps after such an
\* iteration, whatever preferTrades is and whether or not the order carries
\* trade identifiers.
C5_ReturnsInSameIteration ==
    \A t \in DOMAIN task :
        SleepsAfterOrder(task[t]) =>
            /\ task[t].loc.lastOrder.status = "live"
            /\ IterationFill(task[t].loc) = 0

\* C5, amended. fetchOrderFills returns in the iteration, without sleeping,
\* when the fetched order carries trade identifiers and its status is not
\* "live" or its trades aggregate to a size > 0, and when preferTrades is
\* false and the status is non-empty and not "live".
C5_ReturnsWhenTradesOrBreak ==
    \A t \in DOMAIN task :
        SleepsAfterOrder(task[t]) =>
            /\ TradeIdCount(task[t].loc.lastOrder) > 0 =>
                  /\ task[t].loc.lastOrder.status = "live"
                  /\ IterationFill(task[t].loc) <= 0
            /\ ~task[t].args.preferTrades =>
                  task[t].loc.lastOrder.status \in {Absent, "", "live"}

\* C5 witness: with preferTrades set, the first poll fetched a matched
\* order that carries a trade identifier whose trades add up to nothing,
\* and the call returned that snapshot without a second poll.
C5_Witness ==
    \E t \in DOMAIN task :
        /\ FillsReturned(task[t])
        /\ task[t].args.preferTrades
        /\ task[t].args.maxWaitMs > 0
        /\ CallCount(task[t], "getOrder") = 1
        /\ FillsResult(task[t]).order.kind = "object"
        /\ FillsResult(task[t]).order.status = "matched"
        /\ FillsResult(task[t]).order.associate_trades > 0
        /\ FillsResult(task[t]).filledSize = 0
        /\ FillsResult(task[t]).status = "matched"

\* C8. fetchOrderFills returns the placeholder {status "unknown",
\* filledSize 0, avgPrice null}, which carries no order, only if no poll
\* iteration of the call obtained an order snapshot.
C8_PlaceholderOnlyWithoutSnapshot ==
    \A t \in DOMAIN task :
        FillsReturned(task[t]) /\ FillsResult(task[t]).order = NoOrder =>
            ~task[t].loc.everSnapshot

\* C9. Every snapshot fetchOrderFills returns has avgPrice = null if and
\* only if filledSize = 0.
C9_AvgPriceNullIffNoFill ==
    \A t \in DOMAIN task :
        FillsReturned(task[t]) =>
            ((FillsResult(task[t]).avgPrice = NullResult)
                <=> (FillsResult(task[t]).filledSize = 0))

\* The order of the latest poll and the trades fetched for it report no
\* fill: no trade with a size, and a matched size that is absent, zero or
\* no number.
NoFillReported(loc) ==
    /\ computeFillFromTrades(loc.trades).filledSize = 0
    /\ loc.lastOrder.kind = "object" =>
          LET sizeMatched == NumberOrZero(loc.lastOrder.size_matched)
          IN  ~sizeMatched.fin \/ sizeMatched.v = 0

\* C24. fetchOrderFills called with maxWaitMs = 0 on an order that never
\* reports a fill performs at most one poll iteration and returns a
\* snapshot with filledSize 0 whose status is "unknown" or the current
\* status of the order.
C24_ZeroWaitPollsOnce ==
    \A t \in DOMAIN task :
        task[t].op = "fetchOrderFills" /\ task[t].pc # "idle"
                /\ task[t].args.maxWaitMs = 0 =>
            /\ CallCount(task[t], "getOrder") <= 1
            /\ ~task[t].threw
            /\ task[t].pc = "done" /\ ~NoSession(task[t]) =>
                  /\ task[t].result.kind = "fills"
                  /\ CallCount(task[t], "getOrder") = 1
                  /\ NoFillReported(task[t].loc) =>
                        /\ task[t].result.filledSize = 0
                        /\ task[t].result.status
                              \in {"unknown", Field(task[t].loc.lastOrder, "status")}

\* C24 witness: with maxWaitMs = 0 the order was polled once, was live
\* without a fill, and the call returned its status and filledSize 0 when
\* the wait had run out.
C24_Witness ==
    \E t \in DOMAIN task :
        /\ FillsReturned(task[t])
        /\ task[t].args.maxWaitMs = 0
        /\ CallCount(task[t], "getOrder") = 1
        /\ task[t].loc.exit = "timeout"
        /\ task[t].loc.lastOrder.kind = "object"
        /\ task[t].loc.lastOrder.status = "live"
        /\ NoFillReported(task[t].loc)
        /\ task[t].result.filledSize = 0
        /\ task[t].result.status = "live"

\* C25. With preferTrades = false, when polling ends without a
\* trade-derived fill (timeout, or a status that breaks the loop), filledSize
\* and avgPrice are the matched size and the price of the order, each
\* validated for finiteness and positivity: a matched size that is not
\* finite or not positive gives filledSize 0, such a price avgPrice null.
C25_FallbackValidatesFields ==
    \A t \in DOMAIN task :
        /\ FillsReturned(task[t])
        /\ ~task[t].args.preferTrades
        /\ task[t].loc.exit \in {"timeout", "break"}
        /\ task[t].loc.lastOrder.kind = "object"
        => LET sizeMatched == NumberOrZero(task[t].loc.lastOrder.size_matched)
               price == NumberOrZero(task[t].loc.lastOrder.price)
           IN  /\ FillsResult(task[t]).filledSize =
                     IF sizeMatched.fin /\ sizeMatched.v > 0
                     THEN sizeMatched.v ELSE 0
               /\ FillsResult(task[t]).avgPrice =
                     IF price.fin /\ price.v > 0 THEN price ELSE NullResult

\* The trades of the answers that are arrays, in the order of the queries.
RECURSIVE SucceededTrades(_)
SucceededTrades(answers) ==
    IF answers = <<>> THEN <<>>
    ELSE IF Head(answers).kind = "array"
    THEN <<Head(answers).trade>> \o SucceededTrades(Tail(answers))
    ELSE SucceededTrades(Tail(answers))

\* fetchOrderFills has an order with trade identifiers at hand.
HasTradeIds(tk) ==
    /\ tk.sub = "fetchOrderFills"
    /\ tk.loc # NoArgs
    /\ TradeIdCount(tk.loc.lastOrder) > 0

\* C26. Trade fetching is best-effort per trade: for an order with k trade
\* identifiers every identifier is queried once in the iteration whichever
\* other queries fail, a failed query aborts neither the batch nor the
\* fetchOrderFills call, and the aggregated fill covers exactly the trades
\* whose query succeeded.
C26_TradesBestEffort ==
    \A t \in DOMAIN task :
        HasTradeIds(task[t]) =>
            LET loc == task[t].loc
                k == TradeIdCount(loc.lastOrder)
            IN  /\ ~task[t].threw
                /\ loc.trades = SucceededTrades(loc.answers)
                /\ IF task[t].pc = "awaitTrade"
                   THEN /\ loc.pending > 0
                        /\ Len(loc.answers) + loc.pending = k
                        /\ task[t].calls[Len(task[t].calls)] = "getTrades"
                   ELSE Len(loc.answers) = k
                /\ FillsReturned(task[t]) /\ loc.exit = "fill" =>
                      /\ FillsResult(task[t]).trades = SucceededTrades(loc.answers)
                      /\ FillsResult(task[t]).filledSize =
                            computeFillFromTrades(SucceededTrades(loc.answers)).filledSize

\* C26 witness: of two trade queries the first raised and the second gave a
\* trade of 2 shares, and fetchOrderFills returned the fill of 2 shares.
C26_Witness ==
    \E t \in DOMAIN task :
        /\ HasTradeIds(task[t])
        /\ FillsReturned(task[t])
        /\ task[t].loc.exit = "fill"
        /\ Len(task[t].loc.answers) = 2
        /\ task[t].loc.answers[1].kind = "raise"
        /\ task[t].loc.answers[2].kind = "array"
        /\ FillsResult(task[t]).filledSize = 2 * ONE
        /\ Len(FillsResult(task[t]).trades) = 1

\* C31. fetchOrderFills always terminates when every client call returns
\* or raises and the clock advances: it performs at most
\* floor(maxWaitMs / pollIntervalMs) + 1 order polls and then returns a
\* snapshot, and a failed order fetch in an iteration neither ends the call
\* early nor raises.
C31_PollingTerminates ==
    /\ [](\A t \in DOMAIN task :
             task[t].op = "fetchOrderFills" /\ task[t].pc # "idle" =>
                 /\ CallCount(task[t], "getOrder")
                       <= task[t].args.maxWaitMs \div task[t].args.pollIntervalMs + 1
                 /\ ~task[t].threw
                 /\ task[t].pc = "done" /\ ~NoSession(task[t]) =>
                       task[t].result.kind = "fills")
    /\ [][\A t \in DOMAIN task :
             /\ task[t].op = "fetchOrderFills"
             /\ task[t].pc = "awaitOrder"
             /\ task'[t].pc # "awaitOrder"
             /\ task'[t].loc.lastOrder = NoOrder
             => /\ task'[t].pc = "sleep"
                /\ ~task'[t].threw]_vars
    /\ \A t \in FillTasks :
          (task[t].op = "fetchOrderFills") ~> (task[t].pc = "done")

\* C31 witness: with maxWaitMs = 1 and pollIntervalMs = 1 the order was
\* polled twice, both polls failed, and the call returned the placeholder
\* when the wait had run out.
C31_Witness ==
    \E t \in DOMAIN task :
        /\ FillsReturned(task[t])
        /\ task[t].args.maxWaitMs = 1
        /\ task[t].args.pollIntervalMs = 1
        /\ CallCount(task[t], "getOrder") = 2
        /\ ~task[t].loc.everSnapshot
        /\ task[t].loc.exit = "timeout"
        /\ task[t].result.status = "unknown"

\* C39. In fetchOrderFills with preferTrades = true a positive fill is only
\* ever reported by early termination: every result returned after the
\* polling loop is exhausted has filledSize 0 and avgPrice null.
C39_ExhaustedLoopReportsNoFill ==
    \A t \in DOMAIN task :
        /\ FillsReturned(task[t])
        /\ task[t].args.preferTrades
        /\ task[t].loc.exit \in {"timeout", "break"}
        => /\ FillsResult(task[t]).filledSize = 0
           /\ FillsResult(task[t]).avgPrice = NullResult

(***************************************************************************)
(* Properties of the order route.                                          *)
(***************************************************************************)
Issued(tk, name) == \E i \in DOMAIN tk.calls : tk.calls[i] = name

Responded(tk) == tk.op = "route" /\ tk.pc = "done" /\ ~tk.threw

\* The requests the exchange receives while a session is initialized.
SessionCalls == {"createOrDeriveApiKey", "deriveApiKey"}

LocalRejections == {"priceBand", "limitMinSize", "limitMinNotional"}

MarketRejections == {"sellNoBalance", "sellMinSize", "sellMinNotional",
                     "buyMinNotional", "buyMinSize"}

\* The route submitted a market SELL.
SubmittedMarketSell(tk) ==
    /\ tk.op = "route"
    /\ Issued(tk, "createAndPostMarketOrder")
    /\ tk.req.body.side = "SELL"

\* C6. For every market SELL that passes preflight and is submitted, the
\* residual, the available conditional balance minus the submitted share
\* amount, is either 0 or at least minSellSharesAtPrice(price).
C6_NoDustAfterSell ==
    \A t \in DOMAIN task :
        SubmittedMarketSell(task[t]) =>
            LET residual == task[t].req.available.v - task[t].req.submitAmount.v
            IN  \/ residual = 0
                \/ residual >= minSellSharesAtPrice(task[t].req.body.price)

\* C10. A request rejected by a preflight check (market price band, limit
\* minimums, market BUY minimums, market SELL minimums) has made no
\* exchange client call of any kind when the rejection is returned.
C10_RejectionBeforeAnyCall ==
    \A t \in DOMAIN task :
        /\ Responded(task[t])
        /\ task[t].result.rejection \in LocalRejections \cup MarketRejections
        => task[t].calls = <<>>

\* C10, amended. A request rejected by the market price band or by the
\* limit minimums has made no exchange client call, and no request whose
\* price is outside the band or whose limit size or notional is below the
\* minimum ever makes one.  A market request rejected by the BUY or SELL
\* minimums has made exactly one balance query, besides the requests of the
\* session initialization, and no metadata query or order submission.
C10_RejectionBeforeSubmission ==
    \A t \in DOMAIN task :
        /\ Responded(task[t]) /\ task[t].result.rejection \in LocalRejections
              => task[t].calls = <<>>
        /\ task[t].op = "route" /\ task[t].calls # <<>> =>
              IF task[t].req.body.market
              THEN /\ task[t].req.body.price.v >= MIN_TRADABLE_PRICE
                   /\ task[t].req.body.price.v <= MAX_TRADABLE_PRICE
              ELSE /\ task[t].req.body.size.v >= MIN_ORDER_SHARES * ONE
                   /\ task[t].req.body.size.v * task[t].req.body.price.v
                         >= MIN_ORDER_NOTIONAL_USD * ONE * ONE
        /\ Responded(task[t]) /\ task[t].result.rejection \in MarketRejections
              => /\ CallCount(task[t], "getBalanceAllowance") = 1
                 /\ \A i \in DOMAIN task[t].calls :
                       task[t].calls[i] \in SessionCalls \cup {"getBalanceAllowance"}

\* C10 witness: a market SELL was rejected for its size after the balance
\* query, and nothing else was sent to the exchange but the credential
\* request of the session.
C10_Witness ==
    \E t \in DOMAIN task :
        /\ Responded(task[t])
        /\ task[t].result.rejection = "sellMinSize"
        /\ task[t].result.status = 409
        /\ task[t].calls = <<"createOrDeriveApiKey", "getBalanceAllowance">>

BalanceKnown(tk, side) ==
    /\ tk.op = "route"
    /\ tk.req # NoArgs
    /\ tk.req.body.kind = "json"
    /\ tk.req.body.market
    /\ tk.req.body.side = side
    /\ tk.req.available # NullResult

\* The route called placeMarketOrder or placeLimitOrder for the request.
Placed(tk) ==
    \/ tk.sub \in PlaceOps \cup {"fetchOrderFills"}
    \/ Issued(tk, "createAndPostMarketOrder")
    \/ Issued(tk, "createAndPostOrder")
    \/ tk.pc = "done" /\ tk.result.rejection \in {"none", "orderError", "submissionFailed"}

C13_BuyPreflight ==
    \A t \in DOMAIN task :
        BalanceKnown(task[t], "BUY") =>
            LET req == task[t].req
                amount == floorTo(Num(Min(req.body.amount.v, req.available.v)), 2)
                tooSmall == \/ amount.v < MIN_ORDER_NOTIONAL_USD * ONE
                            \/ amount.v * ONE
                                  < MIN_ORDER_SHARES * ONE * req.body.price.v
            IN  /\ req.submitAmount = amount
                /\ tooSmall => ~Placed(task[t])
                /\ tooSmall /\ task[t].pc = "done" =>
                      /\ task[t].result.status = 409
                      /\ task[t].result.rejection \in MarketRejections
                /\ ~tooSmall => Placed(task[t])
                /\ task[t].sub = "placeMarketOrder" =>
                      /\ task[t].args.amount = amount.v
                      /\ task[t].args.price = req.body.price.v

\* C13 witness: a market BUY of 8 USD at 0.5 with 3 USD of collateral was
\* submitted with the amount 3.
C13_Witness ==
    \E t \in DOMAIN task :
        /\ BalanceKnown(task[t], "BUY")
        /\ task[t].req.body.amount = Num(8 * ONE)
        /\ task[t].req.body.price = Num(ONE \div 2)
        /\ task[t].req.available = Num(3 * ONE)
        /\ task[t].sub = "placeMarketOrder"
        /\ task[t].args.amount = 3 * ONE
        /\ Issued(task[t], "createAndPostMarketOrder")

\* The route read a limit order request with a number for price and size.
LimitRequest(tk) ==
    /\ tk.op = "route"
    /\ tk.req # NoArgs
    /\ tk.req.body.kind = "json"
    /\ ~tk.req.body.market
    /\ ~parseNumberFails(tk.req.body.price)
    /\ ~parseNumberFails(tk.req.body.size)

\* C14. Limit-order preflight: a limit order request is rejected, and
\* placeLimitOrder is never called, whenever size < 5 or size * price < 1;
\* every limit order that reaches placeLimitOrder through the route has
\* size >= 5 and size * price >= 1.
C14_LimitPreflight ==
    \A t \in DOMAIN task :
        LimitRequest(task[t]) =>
            LET body == task[t].req.body
                tooSmall == \/ body.size.v < MIN_ORDER_SHARES * ONE
                            \/ body.size.v * body.price.v
                                  < MIN_ORDER_NOTIONAL_USD * ONE * ONE
            IN  /\ tooSmall =>
                      /\ ~Placed(task[t])
                      /\ task[t].calls = <<>>
                      /\ task[t].pc = "done"
                      /\ task[t].result.status = 409
                      /\ task[t].result.rejection
                            \in {"limitMinSize", "limitMinNotional"}
                /\ ~tooSmall => Placed(task[t])
                /\ task[t].sub = "placeLimitOrder" =>
                      /\ task[t].args.amount = body.size.v
                      /\ task[t].args.price = body.price.v
                      /\ task[t].args.amount >= MIN_ORDER_SHARES * ONE
                      /\ task[t].args.amount * task[t].args.price
                            >= MIN_ORDER_NOTIONAL_USD * ONE * ONE

\* C14 witness: a limit order of 5 shares at 0.1, a notional of 0.5 USD,
\* was rejected without a call.
C14_Witness ==
    \E t \in DOMAIN task :
        /\ LimitRequest(task[t])
        /\ task[t].req.body.size = Num(5 * ONE)
        /\ task[t].req.body.price = Num(ONE \div 10)
        /\ task[t].pc = "done"
        /\ task[t].result.rejection = "limitMinNotional"
        /\ task[t].calls = <<>>

\* The route read a market order request with a number for the price.
MarketRequest(tk) ==
    /\ tk.op = "route"
    /\ tk.req # NoArgs
    /\ tk.req.body.kind = "json"
    /\ tk.req.body.market
    /\ ~parseNumberFails(tk.req.body.price)

\* C15. A market order request is rejected as out of tradable range if and
\* only if price < 0.01 or price > 0.99: 0.005 and 0.995 are rejected while
\* 0.01, 0.5 and 0.99 are accepted; a rejected request submits no order.
C15_PriceBand ==
    \A t \in DOMAIN task :
        MarketRequest(task[t]) =>
            LET price == task[t].req.body.price.v
                outside == price < MIN_TRADABLE_PRICE \/ price > MAX_TRADABLE_PRICE
                rejected == /\ task[t].pc = "done"
                            /\ ~task[t].threw
                            /\ task[t].result.rejection = "priceBand"
            IN  /\ outside <=> rejected
                /\ rejected => task[t].result.status = 409 /\ task[t].calls = <<>>
                /\ price \in {ONE \div 200, (995 * ONE) \div 1000} => rejected
                /\ price \in {ONE \div 100, ONE \div 2, (99 * ONE) \div 100}
                      => ~rejected

\* C15 witness: a market order at 0.995 was rejected as out of range, and
\* nothing was sent to the exchange.
C15_Witness ==
    \E t \in DOMAIN task :
        /\ MarketRequest(task[t])
        /\ task[t].req.body.price = Num((995 * ONE) \div 1000)
        /\ task[t].pc = "done"
        /\ task[t].result.rejection = "priceBand"
        /\ task[t].calls = <<>>

\* C32. Balance check and order submission are not atomic: a market SELL
\* request reads the whole balance the exchange holds, also while another
\* request that read the same balance has not submitted yet or has its
\* submission pending, and it is checked against its own reading only; so
\* two concurrent requests can both pass preflight and both submit amounts
\* whose sum exceeds the balance.
C32_BalanceCheckIsNotAtomic ==
    /\ [][\A t \in DOMAIN task :
             /\ task[t].sub = "fetchConditionalBalance"
             /\ task[t].pc = "awaitRead"
             /\ task'[t].pc = "returned"
             /\ task'[t].ret # NullResult
             => task'[t].ret.available = ExchangeBalance]_vars
    /\ [](\A t \in DOMAIN task :
             BalanceKnown(task[t], "SELL") =>
                 LET req == task[t].req
                     amount == floorTo(adjustSellAmountToAvoidDust(
                                           req.body.amount, req.available,
                                           req.body.price), 2)
                 IN  /\ req.submitAmount = amount
                     /\ task[t].pc = "done"
                           /\ task[t].result.rejection \in MarketRejections
                        => \/ amount.v < MIN_ORDER_SHARES * ONE
                           \/ amount.v * req.body.price.v
                                 < MIN_ORDER_NOTIONAL_USD * ONE * ONE)

\* C32 witness: two requests read the same balance of 10 shares, both
\* passed preflight, and both submissions are pending at once with amounts
\* that sum to more than the balance.
C32_Witness ==
    \E t, u \in DOMAIN task :
        /\ t # u
        /\ BalanceKnown(task[t], "SELL")
        /\ BalanceKnown(task[u], "SELL")
        /\ task[t].req.available = Num(RaceBalance)
        /\ task[u].req.available = Num(RaceBalance)
        /\ task[t].pc = "awaitPost"
        /\ task[u].pc = "awaitPost"
        /\ Issued(task[t], "createAndPostMarketOrder")
        /\ Issued(task[u], "createAndPostMarketOrder")
        /\ task[t].req.submitAmount.v + task[u].req.submitAmount.v > RaceBalance

\* The route submitted a market order for the request.
SubmittedMarket(tk) ==
    /\ tk.op = "route"
    /\ Issued(tk, "createAndPostMarketOrder")

\* C37. For every market order the route submits, the submitted amount
\* never exceeds the balance queried for that request; for BUY it also
\* never exceeds the requested amount, while for SELL it exceeds the
\* requested amount only when it is the whole available balance floored to
\* 2 decimals.
C37_SubmittedWithinBalance ==
    \A t \in DOMAIN task :
        SubmittedMarket(task[t]) =>
            LET req == task[t].req
            IN  /\ req.submitAmount.v <= req.available.v
                /\ req.body.side = "BUY" =>
                      req.submitAmount.v <= req.body.amount.v
                /\ req.body.side = "SELL"
                      /\ req.submitAmount.v > req.body.amount.v =>
                         req.submitAmount = floorTo(req.available, 2)

\* C37, amended. For every market order the route submits, the submitted
\* amount is a finite multiple of 0.01 that exceeds the balance queried for
\* that request by no more than the tolerance of floorTo; for BUY it
\* exceeds the requested amount by no more than that tolerance, while for
\* SELL it exceeds the requested amount by more than that tolerance only
\* when it is the whole available balance floored to 2 decimals.
C37_SubmittedWithinTolerance ==
    \A t \in DOMAIN task :
        SubmittedMarket(task[t]) =>
            LET req == task[t].req
            IN  /\ req.submitAmount.fin
                /\ req.available.fin
                /\ req.submitAmount.v % (ONE \div 100) = 0
                /\ req.submitAmount.v <= req.available.v + NUMERIC_EPSILON
                /\ req.body.side = "BUY" =>
                      req.submitAmount.v <= req.body.amount.v + NUMERIC_EPSILON
                /\ req.body.side = "SELL"
                      /\ req.submitAmount.v > req.body.amount.v + NUMERIC_EPSILON =>
                         req.submitAmount = floorTo(req.available, 2)

\* C37 witness: a market SELL of 4 shares against a balance within the
\* tolerance below 5 was submitted for 5 shares, the whole balance floored.
C37_Witness ==
    \E t \in DOMAIN task :
        /\ SubmittedMarket(task[t])
        /\ task[t].req.body.side = "SELL"
        /\ task[t].req.body.amount = Num(4 * ONE)
        /\ task[t].req.available = Num(5 * ONE - NUMERIC_EPSILON)
        /\ task[t].req.submitAmount = Num(5 * ONE)

\* The results with which the route ends before it calls placeLimitOrder or
\* placeMarketOrder.
EarlyRejections ==
    {"disabled", "invalidJson", "badPrice", "badSize", "badAmount",
     "balanceFailed"} \cup LocalRejections \cup MarketRejections

\* The route called a balance query for a valid market order and got null.
BalanceFailed(tk) ==
    /\ Responded(tk)
    /\ tk.req # NoArgs
    /\ tk.req.body.kind = "json"
    /\ Validation(tk.req.body) = "none"
    /\ tk.req.body.market
    /\ tk.req.available = NullResult

\* C38. On every error outcome of the order route before submission
\* (trading disabled or key missing, malformed input, preflight rejection,
\* balance query failure) no order submission call is made to the exchange;
\* a balance query failure on a market order yields an error result with
\* status 502.
C38_NoSubmissionBeforePlacement ==
    \A t \in DOMAIN task :
        task[t].op = "route" =>
            /\ \/ Responded(task[t])
                     /\ task[t].result.rejection \in EarlyRejections
               \/ task[t].threw /\ task[t].sub \in BalanceOps
               => /\ ~Issued(task[t], "createAndPostOrder")
                  /\ ~Issued(task[t], "createAndPostMarketOrder")
            /\ Responded(task[t]) =>
                  /\ task[t].result.rejection \in EarlyRejections =>
                        task[t].result.status \in {400, 403, 409, 502}
                  /\ task[t].result.rejection = "balanceFailed"
                        <=> BalanceFailed(task[t])
            /\ BalanceFailed(task[t]) => task[t].result.status = 502

\* C38 witness: a market SELL passed the checks, the balance query of the
\* exchange raised, and the route answered 502 without a submission.
C38_Witness ==
    \E t \in DOMAIN task :
        /\ BalanceFailed(task[t])
        /\ task[t].req.body.side = "SELL"
        /\ Issued(task[t], "getBalanceAllowance")
        /\ task[t].loc.response.kind = "raise"
        /\ task[t].result.status = 502
        /\ ~Issued(task[t], "createAndPostMarketOrder")

(***************************************************************************)
(* Properties of the sizing functions.                                     *)
(***************************************************************************)
Evaluated(tk, op) == tk.op = op /\ tk.pc = "done"

\* C16. adjustSellAmountToAvoidDust(requested, available, price), for
\* finite inputs, returns available when the leftover
\* available - min(requested, available) is strictly positive and smaller
\* than max(5, 1 / price), and min(requested, available) otherwise;
\* (8, 10, 0.5) gives 10 and (4, 10, 0.5) gives 4.
C16_AdjustSellAmount ==
    \A t \in DOMAIN task :
        Evaluated(task[t], "adjustSellAmountToAvoidDust") =>
            LET requested == task[t].args.requested.v
                available == task[t].args.available.v
                price == task[t].args.price.v
                clamped == IF requested <= available THEN requested ELSE available
                leftover == available - clamped
                dust == /\ leftover > 0
                        /\ \/ leftover < 5 * ONE
                           \/ price > 0 /\ leftover * price < ONE * ONE
            IN  /\ task[t].result = Num(IF dust THEN available ELSE clamped)
                /\ requested = 8 * ONE /\ available = 10 * ONE
                      /\ price = ONE \div 2 => task[t].result = Num(10 * ONE)
                /\ requested = 4 * ONE /\ available = 10 * ONE
                      /\ price = ONE \div 2 => task[t].result = Num(4 * ONE)

\* C16 witness: adjustSellAmountToAvoidDust(8, 10, 0.5) was evaluated and
\* gave 10.
C16_Witness ==
    \E t \in DOMAIN task :
        /\ Evaluated(task[t], "adjustSellAmountToAvoidDust")
        /\ task[t].args = [requested |-> Num(8 * ONE), available |-> Num(10 * ONE),
                           price |-> Num(ONE \div 2)]
        /\ task[t].result = Num(10 * ONE)

\* The trades of a list whose size and price are both finite.
Counted(trades) ==
    {i \in DOMAIN trades : trades[i].size.fin /\ trades[i].price.fin}

\* The sum of f over the set of numbers S.
RECURSIVE SumOver(_, _)
SumOver(S, f) ==
    IF S = {} THEN 0
    ELSE LET i == CHOOSE x \in S : TRUE
         IN  f[i] + SumOver(S \ {i}, f)

\* C33. computeFillFromTrades returns filledSize equal to the sum of the
\* sizes and avgPrice equal to sum(size * price) / filledSize over exactly
\* the trades whose size and price are both finite, avgPrice null when
\* filledSize is not > 0; (2 @ 0.4) and (3 @ 0.6) give 5 and 0.52.
C33_FillFromFiniteTrades ==
    \A t \in DOMAIN task :
        Evaluated(task[t], "computeFillFromTrades") =>
            LET trades == task[t].args.trades
                size == SumOver(Counted(trades),
                                [i \in DOMAIN trades |-> trades[i].size.v])
                notional == SumOver(Counted(trades),
                                    [i \in DOMAIN trades |->
                                        trades[i].size.v * trades[i].price.v])
                fills == task[t].result
            IN  /\ fills.filledSize = size
                /\ size <= 0 => fills.avgPrice = NullResult
                /\ size > 0 =>
                      /\ fills.avgPrice.fin
                      /\ fills.avgPrice.v * size <= notional
                      /\ notional < (fills.avgPrice.v + 1) * size
                /\ trades = <<[size |-> Num(2 * ONE), price |-> Num((4 * ONE) \div 10)],
                              [size |-> Num(3 * ONE), price |-> Num((6 * ONE) \div 10)]>>
                      => /\ fills.filledSize = 5 * ONE
                         /\ fills.avgPrice = Num((52 * ONE) \div 100)

\* C33 witness: the trades (2 @ 0.4), (3 @ not a number) and (3 @ 0.6) were
\* aggregated to filledSize 5 and avgPrice 0.52.
C33_Witness ==
    \E t \in DOMAIN task :
        /\ Evaluated(task[t], "computeFillFromTrades")
        /\ task[t].args.trades =
              <<[size |-> Num(2 * ONE), price |-> Num((4 * ONE) \div 10)],
                [size |-> Num(3 * ONE), price |-> NaN],
                [size |-> Num(3 * ONE), price |-> Num((6 * ONE) \div 10)]>>
        /\ task[t].result.filledSize = 5 * ONE
        /\ task[t].result.avgPrice = Num((52 * ONE) \div 100)

\* C34. floorTo(value, decimals) returns the largest multiple of
\* 10^-decimals that is <= value + 1e-9: a value within the tolerance below
\* a step is not floored a whole step down, floorTo(1.229, 2) = 1.22, and
\* the result never exceeds value by more than the tolerance.
C34_FloorWithTolerance ==
    \A t \in DOMAIN task :
        Evaluated(task[t], "floorTo") /\ task[t].args.value.fin =>
            LET value == task[t].args.value.v
                step == ONE \div (10 ^ task[t].args.decimals)
                result == task[t].result
            IN  /\ result.fin
                /\ result.v % step = 0
                /\ result.v <= value + NUMERIC_EPSILON
                /\ value + NUMERIC_EPSILON < result.v + step
                /\ result.v - value <= NUMERIC_EPSILON
                /\ task[t].args.decimals = 2 =>
                      /\ value \in {ONE - 1, ONE, ONE + 1} => result.v = ONE
                      /\ value = 12290 => result.v = 12200

\* C34 witness: floorTo of a value one tolerance below 1.00, with 2
\* decimals, was evaluated and gave 1.00.
C34_Witness ==
    \E t \in DOMAIN task :
        /\ Evaluated(task[t], "floorTo")
        /\ task[t].args = [value |-> Num(ONE - 1), decimals |-> 2]
        /\ task[t].result = Num(ONE)

(***************************************************************************)
(* Properties of all public operations.                                    *)
(***************************************************************************)
\* C7. No public operation propagates an exception, whatever the exchange
\* client does: raise, or return any value, also nothing at all.
C7_NeverThrows == \A t \in DOMAIN task : ~task[t].threw

====
